---- MODULE Spec2Model ----
(***************************************************************************)
(* InsightClass front end: session-token lifecycle (lib/auth.ts),          *)
(* authenticated request wrapper (lib/api.ts authFetch), the current-user  *)
(* read of AuthProvider.refresh, and the feedback statistics of the        *)
(* overview hooks.                                                         *)
(***************************************************************************)
EXTENDS Integers, Sequences, FiniteSets, TLC

(* ---------------------------------------------------------------------- *)
(* Bounds of the model                                                     *)
(* ---------------------------------------------------------------------- *)
\* the clock (seconds, Math.floor(Date.now() / 1000)) advances up to MaxNow
MaxNow == 1
\* the refresh endpoint mints at most MaxTokens - 1 new tokens
MaxTokens == 3

\* default skewSeconds of isTokenExpired / ensureValidAccessToken
DefaultSkew == 30

\* the remote service holds at most MaxFeedbacks feedback events
MaxFeedbacks == 2
\* events the service records after the ones it starts with
MaxEvents == 2
\* fetchClassroomAssignments calls in flight at a time
MaxLoads == 2
\* fetchTriggerAlerts calls in flight that the refresh buttons started
MaxRefreshes == 1
\* runs of Gestor.handleResolveAlert in progress at a time
MaxFlows == 2

\* the concurrent callers sharing the token store
Calls == {"A", "B"}

\* value of storage.getItem(TOKEN_KEY) ?? null when nothing is stored
NoToken == [id |-> 0, exp |-> 0]

\* exp claims a token may carry: 0 stands for a missing or undecodable claim,
\* DefaultSkew + 1 is fresh at time 0 and stale from time 1 on, the last one
\* stays fresh
ExpValues == {0, DefaultSkew + 1, DefaultSkew + MaxNow + 1}

Tokens == [id : 1 .. MaxTokens, exp : ExpValues]

(* ---------------------------------------------------------------------- *)
(* Messages thrown or surfaced                                             *)
(* ---------------------------------------------------------------------- *)
MsgSessionExpired == "Sessao expirada. Faca login novamente."
MsgForbidden == "Voce nao possui permissao para esta acao."
MsgConflict == "Nao e possivel concluir: existem vinculos dependentes."
MsgGeneric == "Nao foi possivel completar a operacao."
MsgFailedToFetch == "Failed to fetch"
MsgLoadUser == "Nao foi possivel carregar o usuario autenticado."
MsgRemoveSubject == "Nao foi possivel remover a materia."
MsgLoadSubjects == "Nao foi possivel carregar as materias."

VARIABLES
  tokenStore,   \* sessionStorage[TOKEN_KEY]
  now,          \* the clock, in seconds
  minted,       \* number of tokens the server has issued so far
  session,      \* AuthProvider's session state
  subjectFormStatus,  \* useGestorDirectory: status line of the subject form
  subjectsError,      \* useGestorDirectory: error of the subjects load
  call,         \* per caller: position and locals of the call in progress
  feedbacks,          \* useGestorOverview: the feedback list
  feedbacksNotice,    \* useGestorOverview: notice of the last load
  stats,              \* useGestorOverview: memoized stats of feedbacks
  personalFeedbacks,  \* usePersonalFeedbacks: {sent, received}
  personalNotice,     \* usePersonalFeedbacks: notice of the last load
  personalStats,      \* usePersonalFeedbacks: memoized stats of received
  userIndex,          \* useGestorOverview: memoized per-person aggregates
  analytics,          \* useGestorOverview: memoized rankings
  remoteFeedbacks,    \* remote service: what GET feedback/admin/all answers
  remoteMine,         \* remote service: what GET feedback/mine answers
  caller,             \* useGestorDirectory: isAdmin, isManager, managerSchoolId
  users, schools, subjects, classrooms,   \* useGestorDirectory: the collections
  usersError, schoolsError, classroomsError,
  userActionStatus,
  userForm, userFormMode, userEditingId, userFormStatus, userFormSubmitting,
  subjectForm, subjectFormMode, subjectEditingId, subjectFormSubmitting,
  classroomForm, classroomFormMode, classroomEditingId, classroomFormStatus,
  schoolForm, schoolFormMode, schoolEditingId, schoolFormStatus,
  pending,            \* the directory's remote call in flight
  selectedClassroomId, assignments,       \* ClassroomAssignmentsPanel: its state
  assignmentsStatus, assignmentsLoading, saving,
  assignmentLoads,    \* fetchClassroomAssignments calls in flight (classroom ids)
  assignmentSave,     \* updateClassroomAssignments call in flight
  remoteAlerts,       \* remote service: per alert, whether it is resolved
  alertHooks,         \* per instance of useTriggerAlerts: alerts, loading, notice, resolvingId
  resolveFlows,       \* per run of Gestor.handleResolveAlert: its alert and position
  alertLoads,         \* fetchTriggerAlerts calls in flight
  professorRows,      \* Professor page: the received feedbacks it lists
  reportStatus,       \* Professor page: status line of the report action
  reportCalls,        \* reportFeedback calls in flight
  reportLoads,        \* reloads a report has requested and that are in flight
  remoteFlags,        \* remote service: per feedback, whether it carries the trigger flag
  keywords, keywordsError,                \* useTriggerKeywords: its state
  keywordStatus, keywordSubmitting,
  keywordCall,        \* the keyword hook's remote call in flight
  loginRun            \* AuthProvider.login: position and outcome of the last call

sessionVars == <<tokenStore, now, minted, session, subjectFormStatus, subjectsError, call>>

feedbackVars == <<feedbacks, feedbacksNotice, stats, personalFeedbacks,
                  personalNotice, personalStats, userIndex, analytics,
                  remoteFeedbacks, remoteMine>>

directoryVars == <<caller, users, schools, subjects, classrooms, usersError, schoolsError,
                   classroomsError, userActionStatus, userForm, userFormMode,
                   userEditingId, userFormStatus, userFormSubmitting, subjectForm,
                   subjectFormMode, subjectEditingId, subjectFormSubmitting,
                   classroomForm, classroomFormMode, classroomEditingId,
                   classroomFormStatus, schoolForm, schoolFormMode, schoolEditingId,
                   schoolFormStatus, pending>>

panelVars == <<selectedClassroomId, assignments, assignmentsStatus, assignmentsLoading,
               saving, assignmentLoads, assignmentSave>>

alertVars == <<remoteAlerts, alertHooks, resolveFlows, alertLoads>>

reportVars == <<professorRows, reportStatus, reportCalls, reportLoads, remoteFlags>>

keywordVars == <<keywords, keywordsError, keywordStatus, keywordSubmitting, keywordCall>>

\* AuthProvider.login
loginVars == <<loginRun>>

\* the state of the pages and hooks outside the directory, panel and alert views
pageVars == <<reportVars, keywordVars, loginVars>>

vars == <<sessionVars, feedbackVars, directoryVars, panelVars, alertVars, pageVars>>

\* what the session's operations leave alone
outsideSession == <<feedbackVars, directoryVars, panelVars, alertVars, pageVars>>

\* what the feedback hooks' operations leave alone
outsideFeedback == <<sessionVars, directoryVars, panelVars, alertVars, pageVars>>

\* what the directory hook's operations leave alone
outsideDirectory ==
  <<tokenStore, now, minted, session, call, feedbackVars, panelVars, alertVars, pageVars>>

\* what the assignments panel's operations leave alone
outsidePanel == <<sessionVars, feedbackVars, directoryVars, alertVars, pageVars>>

\* what the alert hooks' operations leave alone
outsideAlerts == <<sessionVars, feedbackVars, directoryVars, panelVars, pageVars>>

\* the state of the management screen
managementVars == <<sessionVars, feedbackVars, directoryVars, panelVars, alertVars>>

\* what the report action of the Professor page leaves alone
outsideReport == <<managementVars, keywordVars, loginVars>>

\* what the keyword hook's operations leave alone
outsideKeywords == <<managementVars, reportVars, loginVars>>

\* locals of a call:
\*   pc          position
\*   op          "deleteSubject", "loadSubjects" (authFetch) or "me" (AuthProvider.refresh)
\*   retryOn401  authFetch's parameter
\*   headers     Authorization header of the call's options (NoToken: not set)
\*   presented   refreshToken's currentToken parameter
\*   evResult    value ensureValidAccessToken resolved with
\*   refreshed   value refreshAccessToken resolved with
\*   status      response.status of the last response (0: none, -1: fetch rejected)
\*   dispatched  number of times the call's request was dispatched
\*   evReqs      refresh requests issued by the current ensureValidAccessToken
\*   refreshReqs refresh requests issued by the authFetch since its first 401
Idle ==
  [pc |-> "idle", op |-> "none", retryOn401 |-> TRUE, headers |-> NoToken,
   presented |-> NoToken, evResult |-> NoToken, refreshed |-> NoToken,
   status |-> 0, dispatched |-> 0, evReqs |-> 0, refreshReqs |-> 0]

(* ---------------------------------------------------------------------- *)
(* lib/auth.ts                                                             *)
(* ---------------------------------------------------------------------- *)
\* isTokenExpired with the comparison off by one: payload.exp < now + skewSeconds
IsTokenExpiredStrict(token, skewSeconds) ==
  IF token.exp = 0 THEN TRUE ELSE token.exp < now + skewSeconds

\* isTokenExpired(token, skewSeconds): a missing exp claim counts as expired
IsTokenExpired(token, skewSeconds) ==
  IF token.exp = 0 THEN TRUE ELSE token.exp <= now + skewSeconds

\* ensureValidAccessToken up to its first suspension: either it resolves at
\* once (pc "evReturned") or a refresh request presenting the stored token is
\* put in flight (pc "evRefresh"); l is the caller's locals
EnsureValidAccessToken(l, skewSeconds) ==
  LET token == tokenStore IN
  IF token = NoToken
  THEN [l EXCEPT !.pc = "evReturned", !.evResult = NoToken, !.evReqs = 0]
  ELSE IF IsTokenExpired(token, skewSeconds)
       THEN [l EXCEPT !.pc = "evRefresh", !.presented = token, !.evReqs = 1,
                      !.evResult = NoToken,
                      !.refreshReqs = IF l.status = 401 THEN @ + 1 ELSE @]
       ELSE [l EXCEPT !.pc = "evReturned", !.evResult = token, !.evReqs = 0]

\* refreshAccessToken up to its first suspension
RefreshAccessToken(l) ==
  LET token == tokenStore IN
  IF token = NoToken
  THEN [l EXCEPT !.pc = "rfReturned", !.refreshed = NoToken]
  ELSE [l EXCEPT !.pc = "rfRefresh", !.presented = token, !.refreshed = NoToken,
                 !.refreshReqs = @ + 1]

\* refreshToken: the refresh endpoint answers with a new access_token, which
\* is saved and returned
RefreshOk(c) ==
  /\ call[c].pc \in {"evRefresh", "rfRefresh"}
  /\ minted < MaxTokens
  /\ \E e \in ExpValues :
       LET t == [id |-> minted + 1, exp |-> e] IN
       /\ tokenStore' = t
       /\ call' = [call EXCEPT ![c] =
            IF @.pc = "evRefresh"
            THEN [@ EXCEPT !.pc = "evReturned", !.evResult = t]
            ELSE [@ EXCEPT !.pc = "rfReturned", !.refreshed = t]]
  /\ minted' = minted + 1
  /\ UNCHANGED <<now, session, subjectFormStatus, subjectsError>>
  /\ UNCHANGED outsideSession

\* refreshToken: response not ok, no access_token in it, or the request threw
RefreshFail(c) ==
  /\ call[c].pc \in {"evRefresh", "rfRefresh"}
  /\ call' = [call EXCEPT ![c] =
       IF @.pc = "evRefresh"
       THEN [@ EXCEPT !.pc = "evReturned", !.evResult = NoToken]
       ELSE [@ EXCEPT !.pc = "rfReturned", !.refreshed = NoToken]]
  /\ UNCHANGED <<tokenStore, now, minted, session, subjectFormStatus, subjectsError>>
  /\ UNCHANGED outsideSession

(* ---------------------------------------------------------------------- *)
(* lib/api.ts                                                              *)
(* ---------------------------------------------------------------------- *)
\* response bodies: raw text, how JSON.parse sees it, and the detail it holds
\* (shape "detailArray": detail[0].msg; "text", "other": no usable detail)
Bodies ==
  { [raw |-> "", shape |-> "empty", detail |-> ""],
    [raw |-> "Conflict", shape |-> "text", detail |-> ""],
    [raw |-> "{detail:str}", shape |-> "detailString", detail |-> "Materia vinculada a turmas."],
    [raw |-> "{detail:''}", shape |-> "detailString", detail |-> ""] }

\* parseErrorMessage(response)
ParseErrorMessage(body) ==
  IF body.raw # "" /\ body.shape \in {"detailString", "detailArray"}
  THEN body.detail
  ELSE IF body.raw # "" THEN body.raw ELSE MsgGeneric

\* message of the ApiError authFetch throws for a non-ok response
ApiErrorMessage(st, body) ==
  LET detail == ParseErrorMessage(body) IN
  IF detail # "" THEN detail
  ELSE IF st = 409 THEN MsgConflict ELSE MsgGeneric

\* error?.message || fallback, in the catch branch of the calling handler
HandlerStatus(msg, fallback) ==
  IF msg # "" THEN msg ELSE fallback

\* locals of a call that is over: only the outcome stays
Over(l, how) ==
  [Idle EXCEPT !.pc = how, !.status = l.status]

\* authFetch rejects with msg; the catch branch of handleDeleteSubject or of
\* loadSubjects surfaces it
Reject(c, l, msg) ==
  /\ call' = [call EXCEPT ![c] = Over(l, "failed")]
  /\ IF l.op = "deleteSubject"
     THEN /\ subjectFormStatus' = HandlerStatus(msg, MsgRemoveSubject)
          /\ UNCHANGED subjectsError
     ELSE /\ subjectsError' = HandlerStatus(msg, MsgLoadSubjects)
          /\ UNCHANGED subjectFormStatus

\* a new authFetch invocation for operation o
BeginAuthFetch(o) ==
  EnsureValidAccessToken([Idle EXCEPT !.op = o], DefaultSkew)

\* handleDeleteSubject -> deleteSubject
AuthFetchStart(c) ==
  /\ call[c].pc = "idle"
  /\ call' = [call EXCEPT ![c] = BeginAuthFetch("deleteSubject")]
  /\ UNCHANGED <<tokenStore, now, minted, session, subjectFormStatus, subjectsError>>
  /\ UNCHANGED outsideSession

\* authFetch that forgets clearToken() when no token could be obtained
AuthFetchDispatchKeepsToken(c) ==
  /\ call[c].pc = "evReturned"
  /\ call[c].op # "me"
  /\ IF call[c].evResult = NoToken
     THEN /\ Reject(c, call[c], MsgSessionExpired)
          /\ UNCHANGED tokenStore
     ELSE /\ call' = [call EXCEPT ![c] =
                [@ EXCEPT !.headers = IF @ = NoToken THEN call[c].evResult ELSE @,
                          !.dispatched = @ + 1,
                          !.pc = "fetching"]]
          /\ UNCHANGED <<tokenStore, subjectFormStatus, subjectsError>>
  /\ UNCHANGED <<now, minted, session>>
  /\ UNCHANGED outsideSession

\* authFetch after ensureValidAccessToken resolved: give up or dispatch
AuthFetchDispatch(c) ==
  /\ call[c].pc = "evReturned"
  /\ call[c].op # "me"
  /\ IF call[c].evResult = NoToken
     THEN /\ tokenStore' = NoToken
          /\ Reject(c, call[c], MsgSessionExpired)
     ELSE /\ call' = [call EXCEPT ![c] =
                [@ EXCEPT !.headers = IF @ = NoToken THEN call[c].evResult ELSE @,
                          !.dispatched = @ + 1,
                          !.pc = "fetching"]]
          /\ UNCHANGED <<tokenStore, subjectFormStatus, subjectsError>>
  /\ UNCHANGED <<now, minted, session>>
  /\ UNCHANGED outsideSession

\* response.status === 401
AuthFetchUnauthorized(c) ==
  /\ call[c].pc = "fetching"
  /\ call[c].op # "me"
  /\ LET l == [call[c] EXCEPT !.status = 401] IN
     IF l.retryOn401
     THEN /\ call' = [call EXCEPT ![c] = RefreshAccessToken(l)]
          /\ UNCHANGED <<tokenStore, subjectFormStatus, subjectsError>>
     ELSE /\ tokenStore' = NoToken
          /\ Reject(c, l, MsgSessionExpired)
  /\ UNCHANGED <<now, minted, session>>
  /\ UNCHANGED outsideSession

\* authFetch replaying through authFetch(path, {...options, headers}) with
\* retryOn401 left at its default
AuthFetchAfterRefreshRetries(c) ==
  /\ call[c].pc = "rfReturned"
  /\ IF call[c].refreshed # NoToken
     THEN /\ call' = [call EXCEPT ![c] =
                EnsureValidAccessToken([@ EXCEPT !.headers = call[c].refreshed], DefaultSkew)]
          /\ UNCHANGED <<tokenStore, subjectFormStatus, subjectsError>>
     ELSE /\ tokenStore' = NoToken
          /\ Reject(c, call[c], MsgSessionExpired)
  /\ UNCHANGED <<now, minted, session>>
  /\ UNCHANGED outsideSession

\* authFetch after refreshAccessToken resolved: replay through a nested
\* authFetch(path, {...options, headers}, false), or give up
AuthFetchAfterRefresh(c) ==
  /\ call[c].pc = "rfReturned"
  /\ IF call[c].refreshed # NoToken
     THEN /\ call' = [call EXCEPT ![c] =
                EnsureValidAccessToken(
                  [@ EXCEPT !.headers = call[c].refreshed, !.retryOn401 = FALSE],
                  DefaultSkew)]
          /\ UNCHANGED <<tokenStore, subjectFormStatus, subjectsError>>
     ELSE /\ tokenStore' = NoToken
          /\ Reject(c, call[c], MsgSessionExpired)
  /\ UNCHANGED <<now, minted, session>>
  /\ UNCHANGED outsideSession

\* response.status === 403
AuthFetchForbidden(c) ==
  /\ call[c].pc = "fetching"
  /\ call[c].op # "me"
  /\ Reject(c, [call[c] EXCEPT !.status = 403], MsgForbidden)
  /\ UNCHANGED <<tokenStore, now, minted, session>>
  /\ UNCHANGED outsideSession

\* !response.ok for any other status
AuthFetchNotOk(c, st, body) ==
  /\ call[c].pc = "fetching"
  /\ call[c].op # "me"
  /\ st \in {409, 500}
  /\ Reject(c, [call[c] EXCEPT !.status = st], ApiErrorMessage(st, body))
  /\ UNCHANGED <<tokenStore, now, minted, session>>
  /\ UNCHANGED outsideSession

\* fetch itself rejects (transport failure)
AuthFetchTransport(c) ==
  /\ call[c].pc = "fetching"
  /\ call[c].op # "me"
  /\ Reject(c, [call[c] EXCEPT !.status = -1], MsgFailedToFetch)
  /\ UNCHANGED <<tokenStore, now, minted, session>>
  /\ UNCHANGED outsideSession

\* 2xx: deleteSubject resolved, the handler goes on to loadSubjects, which
\* resets subjectsError and calls fetchSubjects; fetchSubjects resolved, the
\* handler is finished
AuthFetchOk(c, st) ==
  /\ call[c].pc = "fetching"
  /\ call[c].op # "me"
  /\ st \in {200, 204}
  /\ IF call[c].op = "deleteSubject"
     THEN /\ call' = [call EXCEPT ![c] = BeginAuthFetch("loadSubjects")]
          /\ subjectsError' = ""
     ELSE /\ call' = [call EXCEPT ![c] = Over([@ EXCEPT !.status = st], "done")]
          /\ UNCHANGED subjectsError
  /\ UNCHANGED <<tokenStore, now, minted, session, subjectFormStatus>>
  /\ UNCHANGED outsideSession

(* ---------------------------------------------------------------------- *)
(* context/AuthContext.tsx refresh, lib/auth.ts fetchCurrentUser           *)
(* ---------------------------------------------------------------------- *)
\* roles a current-user response may carry
UserRoles == {"admin", "aluno", "outro"}

\* normalizeSession(user): null for a role outside BackendToFrontend
NormalizeSession(role) ==
  IF role \in {"admin", "gestor", "professor", "aluno"} THEN role ELSE "none"

\* AuthProvider.refresh finishes without a session: clearToken, setSession(null)
SessionDropped(c, l) ==
  /\ tokenStore' = NoToken
  /\ session' = "none"
  /\ call' = [call EXCEPT ![c] = Over(l, "done")]

\* AuthProvider.refresh: no stored token ends it, otherwise fetchCurrentUser
\* enters ensureValidAccessToken
MeStart(c) ==
  /\ call[c].pc = "idle"
  /\ IF tokenStore = NoToken
     THEN /\ session' = "none"
          /\ call' = [call EXCEPT ![c] = Over([Idle EXCEPT !.op = "me"], "done")]
     ELSE /\ call' = [call EXCEPT ![c] =
                EnsureValidAccessToken([Idle EXCEPT !.op = "me"], DefaultSkew)]
          /\ UNCHANGED session
  /\ UNCHANGED <<tokenStore, now, minted, subjectFormStatus, subjectsError>>
  /\ UNCHANGED outsideSession

\* fetchCurrentUser after ensureValidAccessToken resolved
MeDispatch(c) ==
  /\ call[c].pc = "evReturned"
  /\ call[c].op = "me"
  /\ IF call[c].evResult = NoToken
     THEN SessionDropped(c, call[c])
     ELSE /\ call' = [call EXCEPT ![c] =
                [@ EXCEPT !.headers = call[c].evResult,
                          !.dispatched = @ + 1,
                          !.pc = "fetching"]]
          /\ UNCHANGED <<tokenStore, session>>
  /\ UNCHANGED <<now, minted, subjectFormStatus, subjectsError>>
  /\ UNCHANGED outsideSession

\* the current-user read is answered (or fetch rejects), and
\* AuthProvider.refresh acts on what fetchCurrentUser returned or threw
MeRespond(c, st, role) ==
  /\ call[c].pc = "fetching"
  /\ call[c].op = "me"
  /\ st \in {200, 401, 403, 500, -1}
  /\ st # 200 => role = "outro"
  /\ LET l == [call[c] EXCEPT !.status = st] IN
     IF st \in {401, 403}
     THEN SessionDropped(c, l)
     ELSE IF st \in {500, -1}
     THEN SessionDropped(c, l)
     ELSE IF NormalizeSession(role) = "none"
     THEN SessionDropped(c, l)
     ELSE /\ session' = NormalizeSession(role)
          /\ call' = [call EXCEPT ![c] = Over(l, "done")]
          /\ UNCHANGED tokenStore
  /\ UNCHANGED <<now, minted, subjectFormStatus, subjectsError>>
  /\ UNCHANGED outsideSession

\* Date.now() moves on
Tick ==
  /\ now < MaxNow
  /\ now' = now + 1
  /\ UNCHANGED <<tokenStore, minted, session, subjectFormStatus, subjectsError, call>>
  /\ UNCHANGED outsideSession

InitSession ==
  /\ tokenStore \in {NoToken} \cup {[id |-> 1, exp |-> e] : e \in ExpValues}
  /\ now = 0
  /\ minted = 1
  /\ session = "none"
  /\ subjectFormStatus = ""
  /\ subjectsError = ""
  /\ call = [c \in Calls |-> Idle]

Next ==
  \/ \E c \in Calls : AuthFetchStart(c)
  \/ \E c \in Calls : AuthFetchDispatch(c)
  \/ \E c \in Calls : AuthFetchUnauthorized(c)
  \/ \E c \in Calls : AuthFetchAfterRefresh(c)
  \/ \E c \in Calls : AuthFetchForbidden(c)
  \/ \E c \in Calls : \E st \in {409, 500} : \E body \in Bodies : AuthFetchNotOk(c, st, body)
  \/ \E c \in Calls : AuthFetchTransport(c)
  \/ \E c \in Calls : \E st \in {200, 204} : AuthFetchOk(c, st)
  \/ \E c \in Calls : RefreshOk(c)
  \/ \E c \in Calls : RefreshFail(c)
  \/ \E c \in Calls : MeStart(c)
  \/ \E c \in Calls : MeDispatch(c)
  \/ \E c \in Calls : \E st \in {200, 401, 403, 500, -1} : \E role \in UserRoles : MeRespond(c, st, role)
  \/ Tick

(* ---------------------------------------------------------------------- *)
(* Feedback statistics: hooks/useGestorOverview.ts, usePersonalFeedbacks.ts *)
(* ---------------------------------------------------------------------- *)
\* strings are sequences of characters
UpperChars == <<"A", "B", "C", "D", "E", "F", "G", "H", "I", "J", "K", "L", "M",
                "N", "O", "P", "Q", "R", "S", "T", "U", "V", "W", "X", "Y", "Z">>
LowerChars == <<"a", "b", "c", "d", "e", "f", "g", "h", "i", "j", "k", "l", "m",
                "n", "o", "p", "q", "r", "s", "t", "u", "v", "w", "x", "y", "z">>

ToLowerChar(ch) ==
  IF \E i \in DOMAIN UpperChars : UpperChars[i] = ch
  THEN LowerChars[CHOOSE i \in DOMAIN UpperChars : UpperChars[i] = ch]
  ELSE ch

\* String.prototype.toLowerCase
ToLowerCase(str) == [i \in 1 .. Len(str) |-> ToLowerChar(str[i])]

StrPositivo == <<"p", "o", "s", "i", "t", "i", "v", "o">>
StrNeutro == <<"n", "e", "u", "t", "r", "o">>
StrNegativo == <<"n", "e", "g", "a", "t", "i", "v", "o">>
StrTotal == <<"t", "o", "t", "a", "l">>
StrTriggers == <<"t", "r", "i", "g", "g", "e", "r", "s">>
StrConstructor == <<"c", "o", "n", "s", "t", "r", "u", "c", "t", "o", "r">>

\* sentiment_label values an event may carry; <<>> is an absent (or empty) one
Labels ==
  { <<>>,
    StrPositivo,
    <<"P", "o", "s", "i", "t", "i", "v", "o">>,
    StrNeutro,
    StrNegativo,
    <<"N", "E", "G", "A", "T", "I", "V", "O">>,
    <<"f", "e", "l", "i", "z">>,
    StrTotal,
    <<"T", "o", "t", "a", "l">>,
    StrTriggers,
    StrConstructor }

\* events of the stats screens: sent by one person to a classroom
FeedbackItems ==
  [sentiment_label : Labels, has_trigger : BOOLEAN,
   sender_id : {"s1"}, sender_name : {""}, sender_role : {""}, sender_email : {""},
   target_type : {"class"}, target_id : {"c1"},
   target_name : {""}, target_role : {""}, target_email : {""}]

\* (feedback.sentiment_label || 'neutro').toLowerCase()
LabelKey(item) ==
  ToLowerCase(IF item.sentiment_label = <<>> THEN StrNeutro ELSE item.sentiment_label)

\* the forEach step without its else branch: a label that is no sentiment is
\* not counted
OverviewStepDropsUnknown(acc, item) ==
  LET label == LabelKey(item)
      counted ==
        IF label = StrPositivo THEN [acc EXCEPT !.positivo = @ + 1]
        ELSE IF label = StrNeutro THEN [acc EXCEPT !.neutro = @ + 1]
        ELSE IF label = StrNegativo THEN [acc EXCEPT !.negativo = @ + 1]
        ELSE acc
  IN IF item.has_trigger THEN [counted EXCEPT !.triggers = @ + 1] ELSE counted

\* useGestorOverview stats: one forEach step on the accumulator
OverviewStep(acc, item) ==
  LET label == LabelKey(item)
      counted ==
        IF label = StrPositivo THEN [acc EXCEPT !.positivo = @ + 1]
        ELSE IF label = StrNeutro THEN [acc EXCEPT !.neutro = @ + 1]
        ELSE IF label = StrNegativo THEN [acc EXCEPT !.negativo = @ + 1]
        ELSE [acc EXCEPT !.neutro = @ + 1]
  IN IF item.has_trigger THEN [counted EXCEPT !.triggers = @ + 1] ELSE counted

RECURSIVE OverviewFold(_, _, _)
OverviewFold(acc, list, i) ==
  IF i > Len(list) THEN acc ELSE OverviewFold(OverviewStep(acc, list[i]), list, i + 1)

\* useGestorOverview: stats = useMemo(..., [feedbacks])
OverviewStats(list) ==
  OverviewFold([total |-> Len(list), positivo |-> 0, neutro |-> 0,
                negativo |-> 0, triggers |-> 0], list, 1)

\* key in totals: the own keys of the totals object and the lower-case names
\* it inherits from Object.prototype
InTotals(key) ==
  key \in {StrTotal, StrPositivo, StrNeutro, StrNegativo, StrConstructor}

\* usePersonalFeedbacks stats: one forEach step on totals; totals[key] += 1
\* on an inherited name changes none of the four counters
PersonalStep(totals, item) ==
  LET key == LabelKey(item) IN
  IF InTotals(key)
  THEN IF key = StrTotal THEN [totals EXCEPT !.total = @ + 1]
       ELSE IF key = StrPositivo THEN [totals EXCEPT !.positivo = @ + 1]
       ELSE IF key = StrNeutro THEN [totals EXCEPT !.neutro = @ + 1]
       ELSE IF key = StrNegativo THEN [totals EXCEPT !.negativo = @ + 1]
       ELSE totals
  ELSE [totals EXCEPT !.neutro = @ + 1]

RECURSIVE PersonalFold(_, _, _)
PersonalFold(totals, list, i) ==
  IF i > Len(list) THEN totals ELSE PersonalFold(PersonalStep(totals, list[i]), list, i + 1)

\* usePersonalFeedbacks: stats = useMemo(..., [feedbacks.received])
PersonalStats(received) ==
  PersonalFold([total |-> Len(received), positivo |-> 0, neutro |-> 0,
                negativo |-> 0], received, 1)

(* ---------------------------------------------------------------------- *)
(* Per-person aggregates and rankings: useGestorOverview analyticsMemo      *)
(* ---------------------------------------------------------------------- *)
\* the directory behind the events: one student and six teachers
Students == {"s1"}
Teachers == {"t1", "t2", "t3", "t4", "t5", "t6"}
RoleOf(id) == IF id \in Students THEN "aluno" ELSE "professor"

\* a feedback event; carried = FALSE leaves the names, roles and e-mails of
\* its sender and target out ("" is an absent value)
Event(sender, targetType, target, label, carried) ==
  [sentiment_label |-> label, has_trigger |-> FALSE,
   sender_id |-> sender,
   sender_name |-> IF carried THEN "Nome " \o sender ELSE "",
   sender_role |-> IF carried THEN RoleOf(sender) ELSE "",
   sender_email |-> IF carried THEN sender \o "@escola" ELSE "",
   target_type |-> targetType,
   target_id |-> target,
   target_name |-> IF carried /\ targetType = "user" THEN "Nome " \o target ELSE "",
   target_role |-> IF carried /\ targetType = "user" THEN RoleOf(target) ELSE "",
   target_email |-> IF carried /\ targetType = "user" THEN target \o "@escola" ELSE ""]

\* the events the service holds at the start: five teachers have received
\* one, the first of them two
BaseEvents ==
  << Event("s1", "user", "t1", StrPositivo, TRUE),
     Event("s1", "user", "t2", StrNegativo, TRUE),
     Event("s1", "user", "t3", <<>>, TRUE),
     Event("s1", "user", "t4", StrPositivo, TRUE),
     Event("s1", "user", "t5", StrNegativo, TRUE),
     Event("s1", "user", "t1", StrPositivo, TRUE) >>

\* the labels of the events recorded afterwards: absent, capitalised, lower case
AnalyticsLabels == {<<>>, <<"P", "o", "s", "i", "t", "i", "v", "o">>, StrNegativo}

\* the events recorded afterwards: addressed to the student, to a teacher not
\* met before (with and without the name, role and e-mail), to a teacher met
\* before (one with a label that is no sentiment), and one to a classroom
AnalyticsEvents ==
  { Event("s1", "user", "s1", label, TRUE) : label \in AnalyticsLabels }
  \cup { Event("s1", "user", "t6", label, carried) :
           label \in AnalyticsLabels, carried \in BOOLEAN }
  \cup { Event("s1", "user", "t5", <<"P", "o", "s", "i", "t", "i", "v", "o">>, TRUE),
         Event("s1", "user", "t5", <<"f", "e", "l", "i", "z">>, TRUE),
         Event("s1", "class", "c1", StrNegativo, TRUE) }

\* `Usuario #${id.slice(0, 6)}`
FallbackName(id) == "Usuario #" \o (IF Len(id) > 6 THEN SubSeq(id, 1, 6) ELSE id)

\* userMap is kept as the sequence of its values in insertion order
HasUser(userMap, id) == \E i \in DOMAIN userMap : userMap[i].id = id
UserAt(userMap, id) == CHOOSE i \in DOMAIN userMap : userMap[i].id = id

\* ensureUser: the map after the call
EnsureUser(userMap, id, name, role, email) ==
  IF ~HasUser(userMap, id)
  THEN Append(userMap,
              [id |-> id,
               name |-> IF name # "" THEN name ELSE FallbackName(id),
               role |-> role, email |-> email,
               sent |-> 0, received |-> 0, positiveReceived |-> 0,
               negativeReceived |-> 0, neutralReceived |-> 0])
  ELSE [userMap EXCEPT ![UserAt(userMap, id)] =
          [@ EXCEPT !.name = IF @ = "" /\ name # "" THEN name ELSE @,
                    !.role = IF @ = "" /\ role # "" THEN role ELSE @,
                    !.email = IF @ = "" /\ email # "" THEN email ELSE @]]

\* the counters of a target without the final else: a label that is neither
\* positivo nor negativo counts as neutral only when it is neutro
ReceiveOneDropsUnknown(entry, label) ==
  [entry EXCEPT
     !.received = @ + 1,
     !.positiveReceived = IF label = StrPositivo THEN @ + 1 ELSE @,
     !.negativeReceived = IF label = StrNegativo THEN @ + 1 ELSE @,
     !.neutralReceived = IF label = StrNeutro THEN @ + 1 ELSE @]

\* target.received += 1 and the if / else if / else on the label
ReceiveOne(entry, label) ==
  [entry EXCEPT
     !.received = @ + 1,
     !.positiveReceived = IF label = StrPositivo THEN @ + 1 ELSE @,
     !.negativeReceived = IF label = StrNegativo THEN @ + 1 ELSE @,
     !.neutralReceived = IF label # StrPositivo /\ label # StrNegativo THEN @ + 1 ELSE @]

\* the forEach step without its target_type test: every target receives
AggregateStepAnyTarget(userMap, feedback) ==
  LET withSender == EnsureUser(userMap, feedback.sender_id, feedback.sender_name,
                               feedback.sender_role, feedback.sender_email)
      sent == [withSender EXCEPT ![UserAt(withSender, feedback.sender_id)].sent = @ + 1]
      withTarget == EnsureUser(sent, feedback.target_id, feedback.target_name,
                               feedback.target_role, feedback.target_email)
  IN [withTarget EXCEPT ![UserAt(withTarget, feedback.target_id)].received = @ + 1]

\* one step of feedbacks.forEach in analyticsMemo
AggregateStep(userMap, feedback) ==
  LET withSender == EnsureUser(userMap, feedback.sender_id, feedback.sender_name,
                               feedback.sender_role, feedback.sender_email)
      sent == [withSender EXCEPT ![UserAt(withSender, feedback.sender_id)].sent = @ + 1]
      withTarget == EnsureUser(sent, feedback.target_id, feedback.target_name,
                               feedback.target_role, feedback.target_email)
      t == UserAt(withTarget, feedback.target_id)
      label == LabelKey(feedback)
  IN IF feedback.target_type = "user"
     THEN [withTarget EXCEPT ![t] = ReceiveOne(@, label)]
     ELSE sent

RECURSIVE AggregateFold(_, _, _)
AggregateFold(userMap, list, i) ==
  IF i > Len(list) THEN userMap
  ELSE AggregateFold(AggregateStep(userMap, list[i]), list, i + 1)

\* Array.from(userMap.values()) after the forEach
UserAggregates(list) == AggregateFold(<<>>, list, 1)

\* sortBy's filter: no filterFn, or item.role === role && accessor(item) > 0
Selected(item, accessor, role) ==
  role = "" \/ (item.role = role /\ item[accessor] > 0)

\* Array.prototype.sort with (a, b) => accessor(b) - accessor(a): the sort is
\* stable, so an item goes behind every item that is not smaller
InsertSorted(sorted, item, accessor) ==
  LET ahead == Cardinality({i \in DOMAIN sorted : sorted[i][accessor] >= item[accessor]})
  IN SubSeq(sorted, 1, ahead) \o <<item>> \o SubSeq(sorted, ahead + 1, Len(sorted))

RECURSIVE SortFold(_, _, _, _)
SortFold(sorted, list, i, accessor) ==
  IF i > Len(list) THEN sorted
  ELSE SortFold(InsertSorted(sorted, list[i], accessor), list, i + 1, accessor)

\* the length of the rankings: slice(0, 5)
TopN == 5

\* Array.prototype.slice(0, end)
Slice(list, end) == SubSeq(list, 1, IF Len(list) < end THEN Len(list) ELSE end)

\* sortBy without its slice
SortByUnsliced(toArray, accessor, role) ==
  SortFold(<<>>, SelectSeq(toArray, LAMBDA item : Selected(item, accessor, role)),
           1, accessor)

\* sortBy(accessor, filterFn)
SortBy(toArray, accessor, role) ==
  Slice(SortFold(<<>>, SelectSeq(toArray, LAMBDA item : Selected(item, accessor, role)),
                 1, accessor),
        TopN)

\* the analytics object of analyticsMemo
Analytics(toArray) ==
  [topSenders |->
     SelectSeq(SortBy(toArray, "sent", ""), LAMBDA item : item.sent > 0),
   topRecipients |->
     SelectSeq(SortBy(toArray, "received", ""), LAMBDA item : item.received > 0),
   praisedStudents |-> SortBy(toArray, "positiveReceived", "aluno"),
   praisedTeachers |-> SortBy(toArray, "positiveReceived", "professor"),
   pressuredStudents |-> SortBy(toArray, "negativeReceived", "aluno"),
   pressuredTeachers |-> SortBy(toArray, "negativeReceived", "professor"),
   professorSentiments |-> SortBy(toArray, "received", "professor")]

\* error messages a rejected load may carry ("" stands for none)
LoadErrors ==
  {"", "Nenhum feedback disponivel", "NetworkError when attempting to fetch resource.",
   "Failed to fetch", MsgSessionExpired}

\* useGestorOverview.friendlyMessage
FriendlyMessage(msg) ==
  IF msg = "" THEN "Ainda nao conseguimos carregar os registros. Tente novamente em instantes."
  ELSE IF msg = "Nenhum feedback disponivel"
  THEN "Ainda nao ha feedbacks disponiveis para este recorte."
  ELSE IF msg \in {"NetworkError when attempting to fetch resource.", "Failed to fetch"}
  THEN "Nao conseguimos falar com o servidor agora. Tente novamente em instantes."
  ELSE msg

\* usePersonalFeedbacks.friendlyMessage
PersonalFriendlyMessage(msg) ==
  IF msg = "" THEN "Nao conseguimos atualizar agora. Tente novamente em instantes."
  ELSE IF msg = "Nenhum feedback disponivel"
  THEN "Ainda nao ha feedbacks registrados por aqui."
  ELSE IF msg = "NetworkError when attempting to fetch resource."
  THEN "Ainda nao conseguimos conectar ao servidor. Tente novamente em instantes."
  ELSE IF msg = "Failed to fetch"
  THEN "Nao foi possivel falar com o servidor agora."
  ELSE msg

\* the remote service records one more feedback event
RemoteFeedbackCreated(item) ==
  /\ Len(remoteFeedbacks) < MaxFeedbacks
  /\ remoteFeedbacks' = Append(remoteFeedbacks, item)
  /\ UNCHANGED <<feedbacks, feedbacksNotice, stats, userIndex, analytics,
                 personalFeedbacks, personalNotice, personalStats, remoteMine>>
  /\ UNCHANGED outsideFeedback

\* the remote service records one more event of the directory's persons
RemoteEventRecorded(event) ==
  /\ Len(remoteFeedbacks) < Len(BaseEvents) + MaxEvents
  /\ remoteFeedbacks' = Append(remoteFeedbacks, event)
  /\ UNCHANGED <<feedbacks, feedbacksNotice, stats, userIndex, analytics,
                 personalFeedbacks, personalNotice, personalStats, remoteMine>>
  /\ UNCHANGED outsideFeedback

\* useGestorOverview.loadFeedbacks, fetchAllFeedbacks resolved
LoadFeedbacksOk ==
  /\ feedbacks' = remoteFeedbacks
  /\ feedbacksNotice' = ""
  /\ stats' = OverviewStats(feedbacks')
  /\ userIndex' = UserAggregates(feedbacks')
  /\ analytics' = Analytics(userIndex')
  /\ UNCHANGED <<personalFeedbacks, personalNotice, personalStats,
                 remoteFeedbacks, remoteMine>>
  /\ UNCHANGED outsideFeedback

\* useGestorOverview.loadFeedbacks, fetchAllFeedbacks rejected
LoadFeedbacksFail(msg) ==
  /\ feedbacks' = <<>>
  /\ feedbacksNotice' = FriendlyMessage(msg)
  /\ stats' = OverviewStats(feedbacks')
  /\ userIndex' = UserAggregates(feedbacks')
  /\ analytics' = Analytics(userIndex')
  /\ UNCHANGED <<personalFeedbacks, personalNotice, personalStats,
                 remoteFeedbacks, remoteMine>>
  /\ UNCHANGED outsideFeedback

\* the remote service records one more event sent by, or addressed to, the user
RemoteMineCreated(item, box) ==
  /\ Len(remoteMine.sent) + Len(remoteMine.received) < MaxFeedbacks
  /\ remoteMine' = IF box = "sent"
                   THEN [remoteMine EXCEPT !.sent = Append(@, item)]
                   ELSE [remoteMine EXCEPT !.received = Append(@, item)]
  /\ UNCHANGED <<feedbacks, feedbacksNotice, stats, userIndex, analytics,
                 personalFeedbacks, personalNotice, personalStats, remoteFeedbacks>>
  /\ UNCHANGED outsideFeedback

\* usePersonalFeedbacks.loadFeedbacks, fetchMyFeedbacks resolved
LoadMineOk ==
  /\ personalFeedbacks' = remoteMine
  /\ personalNotice' = ""
  /\ personalStats' = PersonalStats(personalFeedbacks'.received)
  /\ UNCHANGED <<feedbacks, feedbacksNotice, stats, userIndex, analytics,
                 remoteFeedbacks, remoteMine>>
  /\ UNCHANGED outsideFeedback

\* usePersonalFeedbacks.loadFeedbacks, fetchMyFeedbacks rejected
LoadMineFail(msg) ==
  /\ personalFeedbacks' = [sent |-> <<>>, received |-> <<>>]
  /\ personalNotice' = PersonalFriendlyMessage(msg)
  /\ personalStats' = PersonalStats(personalFeedbacks'.received)
  /\ UNCHANGED <<feedbacks, feedbacksNotice, stats, userIndex, analytics,
                 remoteFeedbacks, remoteMine>>
  /\ UNCHANGED outsideFeedback

(* ---------------------------------------------------------------------- *)
(* useGestorDirectory: the management screen's directory and its forms      *)
(* ---------------------------------------------------------------------- *)

(* ---------------------------------------------------------------------- *)
(* Directory forms: hooks/useGestorDirectory.ts and the gestor cards        *)
(* ---------------------------------------------------------------------- *)
\* String.prototype.trim on a sequence of characters
RECURSIVE TrimLeft(_)
TrimLeft(str) == IF str # <<>> /\ str[1] = " " THEN TrimLeft(Tail(str)) ELSE str

RECURSIVE TrimRight(_)
TrimRight(str) ==
  IF str # <<>> /\ str[Len(str)] = " " THEN TrimRight(SubSeq(str, 1, Len(str) - 1)) ELSE str

Trim(str) == TrimRight(TrimLeft(str))

\* the decimal forms of the identifiers in use
IdDigits == <<"1", "2", "3", "4", "5", "6">>

\* String(id)
StringOf(id) == IdDigits[id]

\* Number(value) of a form value; Number('') is 0
NumberOf(value) ==
  IF \E i \in DOMAIN IdDigits : IdDigits[i] = value
  THEN CHOOSE i \in DOMAIN IdDigits : IdDigits[i] = value
  ELSE 0

NameAna == <<"A", "n", "a">>
MailAna == <<"a", "@", "b">>

\* what the service answers to the directory loads: two institutions, each
\* with a subject, a classroom and a teacher; the first also has a student.
\* 0 and "" stand for null
RemoteSchools == << [id |-> 1, name |-> NameAna, code |-> <<>>],
                    [id |-> 2, name |-> NameAna, code |-> <<>>] >>

RemoteSubjects == << [id |-> 3, name |-> NameAna, code |-> <<>>, school_id |-> 1, teacher_id |-> ""],
                     [id |-> 4, name |-> NameAna, code |-> <<>>, school_id |-> 2, teacher_id |-> ""] >>

RemoteClassrooms ==
  << [id |-> 5, name |-> NameAna, code |-> <<>>, school_id |-> 1, subject_ids |-> <<3>>],
     [id |-> 6, name |-> NameAna, code |-> <<>>, school_id |-> 2, subject_ids |-> <<4>>] >>

RemoteUsers ==
  << [id |-> "u1", full_name |-> NameAna, email |-> MailAna, role |-> "professor",
      school_id |-> 1, classroom_id |-> 0, subject_id |-> 3,
      teaching_classroom_ids |-> <<5>>, teachable_subject_ids |-> <<3>>],
     [id |-> "u2", full_name |-> NameAna, email |-> MailAna, role |-> "aluno",
      school_id |-> 1, classroom_id |-> 5, subject_id |-> 0,
      teaching_classroom_ids |-> <<>>, teachable_subject_ids |-> <<>>],
     [id |-> "u3", full_name |-> NameAna, email |-> MailAna, role |-> "professor",
      school_id |-> 2, classroom_id |-> 0, subject_id |-> 4,
      teaching_classroom_ids |-> <<6>>, teachable_subject_ids |-> <<4>>] >>

\* the signed-in callers of the management screen: an administrator, and the
\* manager of the first institution
AdminCaller == [isAdmin |-> TRUE, isManager |-> FALSE, managerSchoolId |-> 0]
ManagerCaller == [isAdmin |-> FALSE, isManager |-> TRUE, managerSchoolId |-> 1]
Callers == {AdminCaller, ManagerCaller}

\* managerSchoolId ? String(managerSchoolId) : ''
ManagerSchoolValue == IF caller.managerSchoolId # 0 THEN StringOf(caller.managerSchoolId) ELSE ""

\* elements of a list
Range(list) == {list[i] : i \in DOMAIN list}

\* Array.prototype.map over a list
MapNumber(list) == [i \in DOMAIN list |-> NumberOf(list[i])]
MapString(list) == [i \in DOMAIN list |-> StringOf(list[i])]

\* how a remote call may settle: resolved with one of datas, or rejected with
\* an error carrying one of msgs ("" stands for no message)
Settled(datas, msgs) ==
  {[ok |-> TRUE, data |-> data, msg |-> ""] : data \in datas}
  \cup {[ok |-> FALSE, data |-> <<>>, msg |-> msg] : msg \in msgs}

\* no remote call of the directory is in flight
NoCall == [kind |-> "none", userId |-> "", id |-> 0, payload |-> <<>>, then |-> "none"]

\* a property of a JSON body; an undefined value leaves the property out
Field(name, value, defined) == IF defined THEN name :> value ELSE [x \in {} |-> x]

\* buildUserFormDefaults
BuildUserFormDefaults ==
  [full_name |-> <<>>, email |-> <<>>, password |-> <<>>,
   role |-> IF caller.isManager THEN "professor" ELSE "gestor",
   school_id |-> ManagerSchoolValue,
   classroom_id |-> "", classroom_ids |-> <<>>, subject_id |-> "",
   teachable_subject_ids |-> <<>>]

\* the effect on [isManager, managerSchoolId, userFormMode], run after a
\* change of userFormMode: the person form in create mode
EffectOnUserForm(form, mode) ==
  IF caller.isManager /\ caller.managerSchoolId # 0 /\ mode # userFormMode /\ mode = "create"
  THEN [form EXCEPT !.school_id = StringOf(caller.managerSchoolId)]
  ELSE form

\* the same effect on the subject form and on the classroom form
EffectOnForm(form, mode) ==
  IF caller.isManager /\ caller.managerSchoolId # 0 /\ mode # userFormMode
  THEN [form EXCEPT !.school_id = StringOf(caller.managerSchoolId)]
  ELSE form

\* loadUsers: the list kept from the answer
SanitizeUsers(data) ==
  IF ~caller.isAdmin /\ caller.managerSchoolId # 0
  THEN SelectSeq(data, LAMBDA user : user.role # "admin" /\ user.school_id = caller.managerSchoolId)
  ELSE IF ~caller.isAdmin
  THEN SelectSeq(data, LAMBDA user : user.role # "admin")
  ELSE data

\* visibleSchools
VisibleSchools ==
  IF caller.isAdmin THEN schools
  ELSE SelectSeq(schools, LAMBDA school : school.id = caller.managerSchoolId)

\* UserRegistrationCard: roleOptions, and the empty option of the select
RoleOptions ==
  IF caller.isManager THEN {"", "professor", "aluno"}
  ELSE {"", "admin", "gestor", "professor", "aluno"}

\* UserRegistrationCard: filteredSubjects / filteredClassrooms
FilteredBySchool(list) ==
  SelectSeq(list, LAMBDA item : userForm.school_id = "" \/ item.school_id = NumberOf(userForm.school_id))

\* values typed into the text inputs of the person form
NameInputs == {<<" ">>, NameAna}
MailInputs == {<<>>, MailAna}
PasswordInputs ==
  { <<>>,
    <<" ", " ">>,
    <<"a", "b", "c">>,
    <<" ", "a", "b", "c", "d", "e", " ">>,
    <<"a", "b", "c", "d", "e", "f">> }

\* UserRegistrationCard.handleInputChange on full_name, email or password
UserInputChange(id, value) ==
  /\ ~userFormSubmitting
  /\ userForm[id] # value
  /\ userForm' = [userForm EXCEPT ![id] = value]
  /\ UNCHANGED <<caller, users, schools, subjects, classrooms, usersError,
                 schoolsError, classroomsError, userActionStatus, userFormMode,
                 userEditingId, userFormStatus, userFormSubmitting, subjectForm,
                 subjectFormMode, subjectEditingId, subjectFormSubmitting,
                 classroomForm, classroomFormMode, classroomEditingId,
                 classroomFormStatus, schoolForm, schoolFormMode, schoolEditingId,
                 schoolFormStatus, pending, subjectFormStatus, subjectsError>>
  /\ UNCHANGED outsideDirectory

\* UserRegistrationCard: onChange of the role select
UserRoleChange(role) ==
  /\ ~userFormSubmitting
  /\ role \in RoleOptions
  /\ userForm' = [userForm EXCEPT !.role = role, !.classroom_id = "",
                                  !.teachable_subject_ids = <<>>]
  /\ UNCHANGED <<caller, users, schools, subjects, classrooms, usersError,
                 schoolsError, classroomsError, userActionStatus, userFormMode,
                 userEditingId, userFormStatus, userFormSubmitting, subjectForm,
                 subjectFormMode, subjectEditingId, subjectFormSubmitting,
                 classroomForm, classroomFormMode, classroomEditingId,
                 classroomFormStatus, schoolForm, schoolFormMode, schoolEditingId,
                 schoolFormStatus, pending, subjectFormStatus, subjectsError>>
  /\ UNCHANGED outsideDirectory

\* UserRegistrationCard: onChange of the school select (administrators only)
UserSchoolChange(value) ==
  /\ ~userFormSubmitting
  /\ userForm.role # "admin"
  /\ caller.isAdmin
  /\ value = "" \/ \E i \in DOMAIN VisibleSchools : StringOf(VisibleSchools[i].id) = value
  /\ userForm' = [userForm EXCEPT !.school_id = value, !.classroom_id = "",
                                  !.teachable_subject_ids = <<>>]
  /\ UNCHANGED <<caller, users, schools, subjects, classrooms, usersError,
                 schoolsError, classroomsError, userActionStatus, userFormMode,
                 userEditingId, userFormStatus, userFormSubmitting, subjectForm,
                 subjectFormMode, subjectEditingId, subjectFormSubmitting,
                 classroomForm, classroomFormMode, classroomEditingId,
                 classroomFormStatus, schoolForm, schoolFormMode, schoolEditingId,
                 schoolFormStatus, pending, subjectFormStatus, subjectsError>>
  /\ UNCHANGED outsideDirectory

\* UserRegistrationCard: onChange of the teachable subjects select
UserTeachableChange(selected) ==
  /\ ~userFormSubmitting
  /\ userForm.role = "professor"
  /\ userForm.school_id # ""
  /\ Range(selected) \subseteq {StringOf(s.id) : s \in Range(FilteredBySchool(subjects))}
  /\ userForm.teachable_subject_ids # selected
  /\ userForm' = [userForm EXCEPT !.teachable_subject_ids = selected]
  /\ UNCHANGED <<caller, users, schools, subjects, classrooms, usersError,
                 schoolsError, classroomsError, userActionStatus, userFormMode,
                 userEditingId, userFormStatus, userFormSubmitting, subjectForm,
                 subjectFormMode, subjectEditingId, subjectFormSubmitting,
                 classroomForm, classroomFormMode, classroomEditingId,
                 classroomFormStatus, schoolForm, schoolFormMode, schoolEditingId,
                 schoolFormStatus, pending, subjectFormStatus, subjectsError>>
  /\ UNCHANGED outsideDirectory

\* UserRegistrationCard: onChange of the classroom select
UserClassroomChange(value) ==
  /\ ~userFormSubmitting
  /\ userForm.role = "aluno"
  /\ userForm.school_id # ""
  /\ value = "" \/ \E c \in Range(FilteredBySchool(classrooms)) : StringOf(c.id) = value
  /\ userForm.classroom_id # value
  /\ userForm' = [userForm EXCEPT !.classroom_id = value]
  /\ UNCHANGED <<caller, users, schools, subjects, classrooms, usersError,
                 schoolsError, classroomsError, userActionStatus, userFormMode,
                 userEditingId, userFormStatus, userFormSubmitting, subjectForm,
                 subjectFormMode, subjectEditingId, subjectFormSubmitting,
                 classroomForm, classroomFormMode, classroomEditingId,
                 classroomFormStatus, schoolForm, schoolFormMode, schoolEditingId,
                 schoolFormStatus, pending, subjectFormStatus, subjectsError>>
  /\ UNCHANGED outsideDirectory

\* resetUserForm (onCancelEdit), with the effect that follows the mode change
ResetUserForm ==
  /\ userFormMode = "edit"
  /\ userForm' = EffectOnUserForm(BuildUserFormDefaults, "create")
  /\ userFormMode' = "create"
  /\ userEditingId' = ""
  /\ userFormStatus' = ""
  /\ subjectForm' = EffectOnForm(subjectForm, "create")
  /\ classroomForm' = EffectOnForm(classroomForm, "create")
  /\ UNCHANGED <<caller, users, schools, subjects, classrooms, usersError,
                 schoolsError, classroomsError, userActionStatus, userFormSubmitting,
                 subjectFormMode, subjectEditingId, subjectFormSubmitting,
                 classroomFormMode, classroomEditingId, classroomFormStatus,
                 schoolForm, schoolFormMode, schoolEditingId, schoolFormStatus,
                 pending, subjectFormStatus, subjectsError>>
  /\ UNCHANGED outsideDirectory

\* startEditUser (onEditUser of the users table), with the effect that follows
\* the mode change
StartEditUser(user) ==
  /\ user \in Range(users)
  /\ userForm' =
       EffectOnUserForm(
         [full_name |-> user.full_name,
          email |-> user.email,
          password |-> <<>>,
          role |-> user.role,
          school_id |-> IF user.school_id # 0 THEN StringOf(user.school_id) ELSE ManagerSchoolValue,
          classroom_id |-> IF user.classroom_id # 0 THEN StringOf(user.classroom_id) ELSE "",
          classroom_ids |-> MapString(user.teaching_classroom_ids),
          subject_id |-> IF user.subject_id # 0 THEN StringOf(user.subject_id) ELSE "",
          teachable_subject_ids |-> <<>>],
         "edit")
  /\ userFormMode' = "edit"
  /\ userEditingId' = user.id
  /\ userFormStatus' = ""
  /\ subjectForm' = EffectOnForm(subjectForm, "edit")
  /\ classroomForm' = EffectOnForm(classroomForm, "edit")
  /\ UNCHANGED <<caller, users, schools, subjects, classrooms, usersError,
                 schoolsError, classroomsError, userActionStatus, userFormSubmitting,
                 subjectFormMode, subjectEditingId, subjectFormSubmitting,
                 classroomFormMode, classroomEditingId, classroomFormStatus,
                 schoolForm, schoolFormMode, schoolEditingId, schoolFormStatus,
                 pending, subjectFormStatus, subjectsError>>
  /\ UNCHANGED outsideDirectory

\* status lines of the person form
MsgNameEmail == "Preencha nome e e-mail."
MsgPassword == "A senha temporaria deve ter ao menos 6 caracteres."
MsgSchoolRequired == "Selecione a unidade escolar para este perfil."
MsgManagerScope == "Gestores so podem operar na propria unidade."
MsgTeacherLinks == "Professores precisam de materia e ao menos uma turma."
MsgStudentClassroom == "Alunos precisam de uma turma vinculada."
MsgSaving == "Salvando..."
MsgSaveUser == "Nao foi possivel salvar o usuario."
MsgLoadUsers == "Nao foi possivel carregar os usuarios."

\* messages a rejected directory call may carry ("" stands for none)
DirectoryErrors == {"", MsgConflict}

\* minimum length of the temporary password
MinPasswordLength == 6

\* the password checks of handleUserSubmit without the one of edit mode
PasswordRejectedOnCreate(mode, trimmedPassword) ==
  mode = "create" /\ Len(trimmedPassword) < MinPasswordLength

\* handleUserSubmit: the two password checks
PasswordRejected(mode, trimmedPassword) ==
  \/ mode = "create" /\ Len(trimmedPassword) < MinPasswordLength
  \/ mode = "edit" /\ trimmedPassword # <<>> /\ Len(trimmedPassword) < MinPasswordLength

\* handleUserSubmit: schoolId, classroomId, classroomIds, subjectId (0: undefined)
UserRefs(form) ==
  [schoolId |-> IF form.role = "admin" THEN 0
                ELSE IF form.school_id # "" THEN NumberOf(form.school_id) ELSE 0,
   classroomId |-> IF form.classroom_id # "" THEN NumberOf(form.classroom_id) ELSE 0,
   classroomIds |-> MapNumber(form.classroom_ids),
   subjectId |-> IF form.subject_id # "" THEN NumberOf(form.subject_id) ELSE 0]

\* handleUserSubmit: the status line of the first failed check, "" when the
\* form passes
UserValidation(form, mode) ==
  IF Trim(form.full_name) = <<>> \/ Trim(form.email) = <<>> THEN MsgNameEmail
  ELSE IF PasswordRejected(mode, Trim(form.password)) THEN MsgPassword
  ELSE IF form.role # "admin" /\ UserRefs(form).schoolId = 0 THEN MsgSchoolRequired
  ELSE IF caller.isManager /\ caller.managerSchoolId # 0
          /\ UserRefs(form).schoolId # caller.managerSchoolId THEN MsgManagerScope
  ELSE IF form.role = "professor"
          /\ (UserRefs(form).subjectId = 0 \/ Len(UserRefs(form).classroomIds) = 0) THEN MsgTeacherLinks
  ELSE IF form.role = "aluno" /\ UserRefs(form).classroomId = 0 THEN MsgStudentClassroom
  ELSE ""

\* classroomMap[classroomId ?? -1]?.subject_ids?.[0]
ClassroomFirstSubject(classroomId) ==
  IF \E c \in Range(classrooms) : c.id = classroomId /\ c.subject_ids # <<>>
  THEN (CHOOSE c \in Range(classrooms) : c.id = classroomId /\ c.subject_ids # <<>>).subject_ids[1]
  ELSE 0

\* handleUserSubmit: the body of createAdminUser / updateAdminUser
UserPayload(form, withPassword) ==
  LET subjectId == IF form.role = "aluno" /\ UserRefs(form).subjectId = 0
                   THEN ClassroomFirstSubject(UserRefs(form).classroomId)
                   ELSE UserRefs(form).subjectId
  IN Field("full_name", Trim(form.full_name), TRUE)
     @@ Field("email", Trim(form.email), TRUE)
     @@ Field("role", form.role, TRUE)
     @@ Field("school_id", UserRefs(form).schoolId, UserRefs(form).schoolId # 0)
     @@ Field("classroom_id", UserRefs(form).classroomId,
              form.role = "aluno" /\ UserRefs(form).classroomId # 0)
     @@ Field("classroom_ids", UserRefs(form).classroomIds, form.role = "professor")
     @@ Field("subject_id", subjectId, subjectId # 0)
     @@ Field("password", Trim(form.password), withPassword)

\* handleUserSubmit up to its remote call
HandleUserSubmit ==
  /\ ~userFormSubmitting
  /\ pending.kind = "none"
  /\ IF UserValidation(userForm, userFormMode) # ""
     THEN /\ userFormStatus' = UserValidation(userForm, userFormMode)
          /\ UNCHANGED <<userFormSubmitting, pending>>
     ELSE /\ userFormSubmitting' = TRUE
          /\ userFormStatus' = MsgSaving
          /\ pending' =
               IF userFormMode = "edit" /\ userEditingId # ""
               THEN [NoCall EXCEPT !.kind = "updateAdminUser", !.userId = userEditingId,
                                   !.payload = UserPayload(userForm, Trim(userForm.password) # <<>>)]
               ELSE [NoCall EXCEPT !.kind = "createAdminUser",
                                   !.payload = UserPayload(userForm, TRUE)]
  /\ UNCHANGED <<caller, users, schools, subjects, classrooms, usersError,
                 schoolsError, classroomsError, userActionStatus, userForm,
                 userFormMode, userEditingId, subjectForm, subjectFormMode,
                 subjectEditingId, subjectFormSubmitting, classroomForm,
                 classroomFormMode, classroomEditingId, classroomFormStatus,
                 schoolForm, schoolFormMode, schoolEditingId, schoolFormStatus,
                 subjectFormStatus, subjectsError>>
  /\ UNCHANGED outsideDirectory

\* handleUserSubmit requesting loadUsers whether or not the save returned
AfterUserSubmitAlwaysReloads(ok) == [NoCall EXCEPT !.kind = "fetchUsers", !.then = "handleUserSubmit"]

\* the remote call handleUserSubmit has in flight once its save has settled:
\* await loadUsers() at the end of the try block, nothing from the catch
AfterUserSubmit(ok) ==
  IF ok THEN [NoCall EXCEPT !.kind = "fetchUsers", !.then = "handleUserSubmit"] ELSE NoCall

\* handleUserSubmit after createAdminUser / updateAdminUser settled: resolved, the
\* status line is set and cleared by resetUserForm and loadUsers starts;
\* rejected, the catch and the finally
UserSubmitSettled(answer) ==
  \/ /\ answer.ok
     /\ pending.kind \in {"createAdminUser", "updateAdminUser"}
     /\ userForm' = EffectOnUserForm(BuildUserFormDefaults, "create")
     /\ userFormMode' = "create"
     /\ userEditingId' = ""
     /\ userFormStatus' = ""
     /\ subjectForm' = EffectOnForm(subjectForm, "create")
     /\ classroomForm' = EffectOnForm(classroomForm, "create")
     /\ usersError' = ""
     /\ pending' = AfterUserSubmit(TRUE)
     /\ UNCHANGED <<caller, users, schools, subjects, classrooms, schoolsError,
                    classroomsError, userActionStatus, userFormSubmitting,
                    subjectFormMode, subjectEditingId, subjectFormSubmitting,
                    classroomFormMode, classroomEditingId, classroomFormStatus,
                    schoolForm, schoolFormMode, schoolEditingId, schoolFormStatus,
                    subjectFormStatus, subjectsError>>
     /\ UNCHANGED outsideDirectory
  \/ /\ ~answer.ok
     /\ pending.kind \in {"createAdminUser", "updateAdminUser"}
     /\ userFormStatus' = IF answer.msg # "" THEN answer.msg ELSE MsgSaveUser
     /\ userFormSubmitting' = FALSE
     /\ pending' = AfterUserSubmit(FALSE)
     /\ UNCHANGED <<caller, users, schools, subjects, classrooms, usersError,
                    schoolsError, classroomsError, userActionStatus, userForm,
                    userFormMode, userEditingId, subjectForm, subjectFormMode,
                    subjectEditingId, subjectFormSubmitting, classroomForm,
                    classroomFormMode, classroomEditingId, classroomFormStatus,
                    schoolForm, schoolFormMode, schoolEditingId, schoolFormStatus,
                    subjectFormStatus, subjectsError>>
     /\ UNCHANGED outsideDirectory

\* answers of the service to fetchUsers
UserAnswers == {RemoteUsers, SubSeq(RemoteUsers, 1, 2)}

\* loadUsers after fetchUsers settled, and the finally of the handler that
\* awaited it
LoadUsersSettled(answer) ==
  \/ /\ answer.ok
     /\ pending.kind = "fetchUsers"
     /\ users' = SanitizeUsers(answer.data)
     /\ userFormSubmitting' = IF pending.then = "handleUserSubmit" THEN FALSE ELSE userFormSubmitting
     /\ pending' = NoCall
     /\ UNCHANGED <<caller, schools, subjects, classrooms, usersError, schoolsError,
                    classroomsError, userActionStatus, userForm, userFormMode,
                    userEditingId, userFormStatus, subjectForm, subjectFormMode,
                    subjectEditingId, subjectFormSubmitting, classroomForm,
                    classroomFormMode, classroomEditingId, classroomFormStatus,
                    schoolForm, schoolFormMode, schoolEditingId, schoolFormStatus,
                    subjectFormStatus, subjectsError>>
     /\ UNCHANGED outsideDirectory
  \/ /\ ~answer.ok
     /\ pending.kind = "fetchUsers"
     /\ usersError' = IF answer.msg # "" THEN answer.msg ELSE MsgLoadUsers
     /\ users' = <<>>
     /\ userFormSubmitting' = IF pending.then = "handleUserSubmit" THEN FALSE ELSE userFormSubmitting
     /\ pending' = NoCall
     /\ UNCHANGED <<caller, schools, subjects, classrooms, schoolsError, classroomsError,
                    userActionStatus, userForm, userFormMode, userEditingId,
                    userFormStatus, subjectForm, subjectFormMode, subjectEditingId,
                    subjectFormSubmitting, classroomForm, classroomFormMode,
                    classroomEditingId, classroomFormStatus, schoolForm, schoolFormMode,
                    schoolEditingId, schoolFormStatus, subjectFormStatus, subjectsError>>
     /\ UNCHANGED outsideDirectory

\* status lines of the structure forms
MsgSubjectRequired == "Informe o nome e a unidade."
MsgProcessing == "Processando..."
MsgSaveSubject == "Nao foi possivel salvar a materia."
MsgRemoveSchool == "Nao foi possivel remover a unidade."
MsgRemoveClassroom == "Nao foi possivel remover a turma."
MsgLoadSchools == "Nao foi possivel carregar as unidades."
MsgLoadClassrooms == "Nao foi possivel carregar as turmas."

\* the subject form as resetSubjectForm leaves it
SubjectFormDefaults ==
  [name |-> <<>>, code |-> <<>>, school_id |-> ManagerSchoolValue, teacher_id |-> ""]

\* the classroom form as resetClassroomForm leaves it
ClassroomFormDefaults ==
  [name |-> <<>>, code |-> <<>>, school_id |-> ManagerSchoolValue, subject_ids |-> <<>>]

\* SubjectsCatalogCard: onChange of the name input
SubjectNameChange(value) ==
  /\ ~subjectFormSubmitting
  /\ subjectForm.name # value
  /\ subjectForm' = [subjectForm EXCEPT !.name = value]
  /\ UNCHANGED <<caller, users, schools, subjects, classrooms, usersError,
                 schoolsError, classroomsError, userActionStatus, userForm,
                 userFormMode, userEditingId, userFormStatus, userFormSubmitting,
                 subjectFormMode, subjectEditingId, subjectFormSubmitting,
                 classroomForm, classroomFormMode, classroomEditingId,
                 classroomFormStatus, schoolForm, schoolFormMode, schoolEditingId,
                 schoolFormStatus, pending, subjectFormStatus, subjectsError>>
  /\ UNCHANGED outsideDirectory

\* SubjectsCatalogCard: onChange of the school select, shown when more than
\* one school is visible
SubjectSchoolChange(value) ==
  /\ ~subjectFormSubmitting
  /\ Len(VisibleSchools) > 1
  /\ value = "" \/ \E i \in DOMAIN VisibleSchools : StringOf(VisibleSchools[i].id) = value
  /\ subjectForm.school_id # value
  /\ subjectForm' = [subjectForm EXCEPT !.school_id = value, !.teacher_id = ""]
  /\ UNCHANGED <<caller, users, schools, subjects, classrooms, usersError,
                 schoolsError, classroomsError, userActionStatus, userForm,
                 userFormMode, userEditingId, userFormStatus, userFormSubmitting,
                 subjectFormMode, subjectEditingId, subjectFormSubmitting,
                 classroomForm, classroomFormMode, classroomEditingId,
                 classroomFormStatus, schoolForm, schoolFormMode, schoolEditingId,
                 schoolFormStatus, pending, subjectFormStatus, subjectsError>>
  /\ UNCHANGED outsideDirectory

\* startEditSubject (onEdit of a row of the subjects table)
StartEditSubject(subject) ==
  /\ subject \in Range(subjects)
  /\ subjectForm' = [name |-> subject.name, code |-> subject.code,
                     school_id |-> StringOf(subject.school_id),
                     teacher_id |-> subject.teacher_id]
  /\ subjectEditingId' = subject.id
  /\ subjectFormMode' = "edit"
  /\ subjectFormStatus' = ""
  /\ UNCHANGED <<caller, users, schools, subjects, classrooms, usersError,
                 schoolsError, classroomsError, userActionStatus, userForm,
                 userFormMode, userEditingId, userFormStatus, userFormSubmitting,
                 subjectFormSubmitting, classroomForm, classroomFormMode,
                 classroomEditingId, classroomFormStatus, schoolForm, schoolFormMode,
                 schoolEditingId, schoolFormStatus, pending, subjectsError>>
  /\ UNCHANGED outsideDirectory

\* resetSubjectForm (onReset)
ResetSubjectForm ==
  /\ subjectFormMode = "edit"
  /\ subjectForm' = SubjectFormDefaults
  /\ subjectEditingId' = 0
  /\ subjectFormMode' = "create"
  /\ UNCHANGED <<caller, users, schools, subjects, classrooms, usersError,
                 schoolsError, classroomsError, userActionStatus, userForm,
                 userFormMode, userEditingId, userFormStatus, userFormSubmitting,
                 subjectFormSubmitting, classroomForm, classroomFormMode,
                 classroomEditingId, classroomFormStatus, schoolForm, schoolFormMode,
                 schoolEditingId, schoolFormStatus, pending, subjectFormStatus,
                 subjectsError>>
  /\ UNCHANGED outsideDirectory

\* handleSubjectSubmit: the body of createSubject / updateSubject
SubjectPayload(form) ==
  Field("name", Trim(form.name), TRUE)
  @@ Field("code", Trim(form.code), Trim(form.code) # <<>>)
  @@ Field("school_id", NumberOf(form.school_id), TRUE)
  @@ Field("teacher_id", form.teacher_id, form.teacher_id # "")

\* handleSubjectSubmit up to its remote call
HandleSubjectSubmit ==
  /\ ~subjectFormSubmitting
  /\ pending.kind = "none"
  /\ IF Trim(subjectForm.name) = <<>> \/ subjectForm.school_id = ""
        \/ NumberOf(subjectForm.school_id) = 0
     THEN /\ subjectFormStatus' = MsgSubjectRequired
          /\ UNCHANGED <<subjectFormSubmitting, pending>>
     ELSE /\ subjectFormSubmitting' = TRUE
          /\ subjectFormStatus' = MsgProcessing
          /\ pending' =
               IF subjectFormMode = "edit" /\ subjectEditingId # 0
               THEN [NoCall EXCEPT !.kind = "updateSubject", !.id = subjectEditingId,
                                   !.payload = SubjectPayload(subjectForm)]
               ELSE [NoCall EXCEPT !.kind = "createSubject",
                                   !.payload = SubjectPayload(subjectForm)]
  /\ UNCHANGED <<caller, users, schools, subjects, classrooms, usersError,
                 schoolsError, classroomsError, userActionStatus, userForm,
                 userFormMode, userEditingId, userFormStatus, userFormSubmitting,
                 subjectForm, subjectFormMode, subjectEditingId, classroomForm,
                 classroomFormMode, classroomEditingId, classroomFormStatus,
                 schoolForm, schoolFormMode, schoolEditingId, schoolFormStatus,
                 subjectsError>>
  /\ UNCHANGED outsideDirectory

\* handleSubjectSubmit after createSubject / updateSubject settled: resolved,
\* status line, resetSubjectForm, then loadSubjects starts; rejected, the
\* catch and the finally
SubjectSubmitSettled(answer) ==
  \/ /\ answer.ok
     /\ pending.kind \in {"createSubject", "updateSubject"}
     /\ subjectFormStatus' = IF pending.kind = "updateSubject"
                             THEN "Materia atualizada!" ELSE "Materia criada!"
     /\ subjectForm' = SubjectFormDefaults
     /\ subjectEditingId' = 0
     /\ subjectFormMode' = "create"
     /\ subjectsError' = ""
     /\ pending' = [NoCall EXCEPT !.kind = "fetchSubjects", !.then = "handleSubjectSubmit"]
     /\ UNCHANGED <<caller, users, schools, subjects, classrooms, usersError,
                    schoolsError, classroomsError, userActionStatus, userForm,
                    userFormMode, userEditingId, userFormStatus, userFormSubmitting,
                    subjectFormSubmitting, classroomForm, classroomFormMode,
                    classroomEditingId, classroomFormStatus, schoolForm, schoolFormMode,
                    schoolEditingId, schoolFormStatus>>
     /\ UNCHANGED outsideDirectory
  \/ /\ ~answer.ok
     /\ pending.kind \in {"createSubject", "updateSubject"}
     /\ subjectFormStatus' = IF answer.msg # "" THEN answer.msg ELSE MsgSaveSubject
     /\ subjectFormSubmitting' = FALSE
     /\ pending' = NoCall
     /\ UNCHANGED <<caller, users, schools, subjects, classrooms, usersError,
                    schoolsError, classroomsError, userActionStatus, userForm,
                    userFormMode, userEditingId, userFormStatus, userFormSubmitting,
                    subjectForm, subjectFormMode, subjectEditingId, classroomForm,
                    classroomFormMode, classroomEditingId, classroomFormStatus,
                    schoolForm, schoolFormMode, schoolEditingId, schoolFormStatus,
                    subjectsError>>
     /\ UNCHANGED outsideDirectory

\* the lists a two-element collection of the service may be answered with:
\* the query's filter is applied by the service, not by the hook
Answers(list) == {list, <<list[1]>>, <<list[2]>>, <<>>}

\* loadSubjects after fetchSubjects settled, and the finally of the handler
\* that awaited it
LoadSubjectsSettled(answer) ==
  \/ /\ answer.ok
     /\ pending.kind = "fetchSubjects"
     /\ subjects' = answer.data
     /\ subjectFormSubmitting' =
          IF pending.then = "handleSubjectSubmit" THEN FALSE ELSE subjectFormSubmitting
     /\ pending' = NoCall
     /\ UNCHANGED <<caller, users, schools, classrooms, usersError, schoolsError,
                    classroomsError, userActionStatus, userForm, userFormMode,
                    userEditingId, userFormStatus, userFormSubmitting, subjectForm,
                    subjectFormMode, subjectEditingId, classroomForm, classroomFormMode,
                    classroomEditingId, classroomFormStatus, schoolForm, schoolFormMode,
                    schoolEditingId, schoolFormStatus, subjectFormStatus, subjectsError>>
     /\ UNCHANGED outsideDirectory
  \/ /\ ~answer.ok
     /\ pending.kind = "fetchSubjects"
     /\ subjectsError' = IF answer.msg # "" THEN answer.msg ELSE MsgLoadSubjects
     /\ subjects' = <<>>
     /\ subjectFormSubmitting' =
          IF pending.then = "handleSubjectSubmit" THEN FALSE ELSE subjectFormSubmitting
     /\ pending' = NoCall
     /\ UNCHANGED <<caller, users, schools, classrooms, usersError, schoolsError,
                    classroomsError, userActionStatus, userForm, userFormMode,
                    userEditingId, userFormStatus, userFormSubmitting, subjectForm,
                    subjectFormMode, subjectEditingId, classroomForm, classroomFormMode,
                    classroomEditingId, classroomFormStatus, schoolForm, schoolFormMode,
                    schoolEditingId, schoolFormStatus, subjectFormStatus>>
     /\ UNCHANGED outsideDirectory

\* handleDeleteSchool up to its remote call; window.confirm was accepted (the
\* handler returns otherwise), and the handler compares the id with the
\* schoolEditingId it was rendered with
HandleDeleteSchool(schoolId) ==
  /\ pending.kind = "none"
  /\ \E school \in Range(schools) : school.id = schoolId
  /\ pending' = [NoCall EXCEPT !.kind = "deleteSchool", !.id = schoolId,
                              !.then = IF schoolEditingId = schoolId
                                       THEN "resetSchoolForm" ELSE "none"]
  /\ UNCHANGED <<caller, users, schools, subjects, classrooms, usersError,
                 schoolsError, classroomsError, userActionStatus, userForm,
                 userFormMode, userEditingId, userFormStatus, userFormSubmitting,
                 subjectForm, subjectFormMode, subjectEditingId, subjectFormSubmitting,
                 classroomForm, classroomFormMode, classroomEditingId,
                 classroomFormStatus, schoolForm, schoolFormMode, schoolEditingId,
                 schoolFormStatus, subjectFormStatus, subjectsError>>
  /\ UNCHANGED outsideDirectory

\* handleDeleteSchool after deleteSchool settled: resolved, loadSchools
\* starts; rejected, the catch
DeleteSchoolSettled(answer) ==
  \/ /\ answer.ok
     /\ pending.kind = "deleteSchool"
     /\ IF pending.then = "resetSchoolForm"
        THEN /\ schoolForm' = [name |-> <<>>, code |-> <<>>]
             /\ schoolEditingId' = 0
             /\ schoolFormMode' = "create"
        ELSE UNCHANGED <<schoolForm, schoolEditingId, schoolFormMode>>
     /\ schoolsError' = ""
     /\ pending' = [NoCall EXCEPT !.kind = "fetchSchools"]
     /\ UNCHANGED <<caller, users, schools, subjects, classrooms, usersError,
                    classroomsError, userActionStatus, userForm, userFormMode,
                    userEditingId, userFormStatus, userFormSubmitting, subjectForm,
                    subjectFormMode, subjectEditingId, subjectFormSubmitting,
                    classroomForm, classroomFormMode, classroomEditingId,
                    classroomFormStatus, schoolFormStatus, subjectFormStatus,
                    subjectsError>>
     /\ UNCHANGED outsideDirectory
  \/ /\ ~answer.ok
     /\ pending.kind = "deleteSchool"
     /\ schoolFormStatus' = IF answer.msg # "" THEN answer.msg ELSE MsgRemoveSchool
     /\ pending' = NoCall
     /\ UNCHANGED <<caller, users, schools, subjects, classrooms, usersError,
                    schoolsError, classroomsError, userActionStatus, userForm,
                    userFormMode, userEditingId, userFormStatus, userFormSubmitting,
                    subjectForm, subjectFormMode, subjectEditingId, subjectFormSubmitting,
                    classroomForm, classroomFormMode, classroomEditingId,
                    classroomFormStatus, schoolForm, schoolFormMode, schoolEditingId,
                    subjectFormStatus, subjectsError>>
     /\ UNCHANGED outsideDirectory

\* loadSchools after fetchSchools settled
LoadSchoolsSettled(answer) ==
  \/ /\ answer.ok
     /\ pending.kind = "fetchSchools"
     /\ schools' = answer.data
     /\ pending' = NoCall
     /\ UNCHANGED <<caller, users, subjects, classrooms, usersError, schoolsError,
                    classroomsError, userActionStatus, userForm, userFormMode,
                    userEditingId, userFormStatus, userFormSubmitting, subjectForm,
                    subjectFormMode, subjectEditingId, subjectFormSubmitting,
                    classroomForm, classroomFormMode, classroomEditingId,
                    classroomFormStatus, schoolForm, schoolFormMode, schoolEditingId,
                    schoolFormStatus, subjectFormStatus, subjectsError>>
     /\ UNCHANGED outsideDirectory
  \/ /\ ~answer.ok
     /\ pending.kind = "fetchSchools"
     /\ schoolsError' = IF answer.msg # "" THEN answer.msg ELSE MsgLoadSchools
     /\ schools' = <<>>
     /\ pending' = NoCall
     /\ UNCHANGED <<caller, users, subjects, classrooms, usersError, classroomsError,
                    userActionStatus, userForm, userFormMode, userEditingId,
                    userFormStatus, userFormSubmitting, subjectForm, subjectFormMode,
                    subjectEditingId, subjectFormSubmitting, classroomForm,
                    classroomFormMode, classroomEditingId, classroomFormStatus,
                    schoolForm, schoolFormMode, schoolEditingId, schoolFormStatus,
                    subjectFormStatus, subjectsError>>
     /\ UNCHANGED outsideDirectory

\* handleDeleteSubject up to its remote call; window.confirm was accepted, and
\* the handler compares the id with the subjectEditingId it was rendered with
HandleStructureDeleteSubject(subjectId) ==
  /\ pending.kind = "none"
  /\ \E subject \in Range(subjects) : subject.id = subjectId
  /\ pending' = [NoCall EXCEPT !.kind = "deleteSubject", !.id = subjectId,
                              !.then = IF subjectEditingId = subjectId
                                       THEN "resetSubjectForm" ELSE "none"]
  /\ UNCHANGED <<caller, users, schools, subjects, classrooms, usersError,
                 schoolsError, classroomsError, userActionStatus, userForm,
                 userFormMode, userEditingId, userFormStatus, userFormSubmitting,
                 subjectForm, subjectFormMode, subjectEditingId, subjectFormSubmitting,
                 classroomForm, classroomFormMode, classroomEditingId,
                 classroomFormStatus, schoolForm, schoolFormMode, schoolEditingId,
                 schoolFormStatus, subjectFormStatus, subjectsError>>
  /\ UNCHANGED outsideDirectory

\* handleDeleteSubject after deleteSubject settled: resolved, loadSubjects
\* starts; rejected, the catch
DeleteSubjectSettled(answer) ==
  \/ /\ answer.ok
     /\ pending.kind = "deleteSubject"
     /\ IF pending.then = "resetSubjectForm"
        THEN /\ subjectForm' = SubjectFormDefaults
             /\ subjectEditingId' = 0
             /\ subjectFormMode' = "create"
        ELSE UNCHANGED <<subjectForm, subjectEditingId, subjectFormMode>>
     /\ subjectsError' = ""
     /\ pending' = [NoCall EXCEPT !.kind = "fetchSubjects"]
     /\ UNCHANGED <<caller, users, schools, subjects, classrooms, usersError,
                    schoolsError, classroomsError, userActionStatus, userForm,
                    userFormMode, userEditingId, userFormStatus, userFormSubmitting,
                    subjectFormSubmitting, classroomForm, classroomFormMode,
                    classroomEditingId, classroomFormStatus, schoolForm, schoolFormMode,
                    schoolEditingId, schoolFormStatus, subjectFormStatus>>
     /\ UNCHANGED outsideDirectory
  \/ /\ ~answer.ok
     /\ pending.kind = "deleteSubject"
     /\ subjectFormStatus' = IF answer.msg # "" THEN answer.msg ELSE MsgRemoveSubject
     /\ pending' = NoCall
     /\ UNCHANGED <<caller, users, schools, subjects, classrooms, usersError,
                    schoolsError, classroomsError, userActionStatus, userForm,
                    userFormMode, userEditingId, userFormStatus, userFormSubmitting,
                    subjectForm, subjectFormMode, subjectEditingId, subjectFormSubmitting,
                    classroomForm, classroomFormMode, classroomEditingId,
                    classroomFormStatus, schoolForm, schoolFormMode, schoolEditingId,
                    schoolFormStatus, subjectsError>>
     /\ UNCHANGED outsideDirectory

\* handleDeleteClassroom up to its remote call; window.confirm was accepted, and
\* the handler compares the id with the classroomEditingId it was rendered with
HandleDeleteClassroom(classroomId) ==
  /\ pending.kind = "none"
  /\ \E classroom \in Range(classrooms) : classroom.id = classroomId
  /\ pending' = [NoCall EXCEPT !.kind = "deleteClassroom", !.id = classroomId,
                              !.then = IF classroomEditingId = classroomId
                                       THEN "resetClassroomForm" ELSE "none"]
  /\ UNCHANGED <<caller, users, schools, subjects, classrooms, usersError,
                 schoolsError, classroomsError, userActionStatus, userForm,
                 userFormMode, userEditingId, userFormStatus, userFormSubmitting,
                 subjectForm, subjectFormMode, subjectEditingId, subjectFormSubmitting,
                 classroomForm, classroomFormMode, classroomEditingId,
                 classroomFormStatus, schoolForm, schoolFormMode, schoolEditingId,
                 schoolFormStatus, subjectFormStatus, subjectsError>>
  /\ UNCHANGED outsideDirectory

\* handleDeleteClassroom after deleteClassroom settled: resolved,
\* loadClassrooms starts; rejected, the catch
DeleteClassroomSettled(answer) ==
  \/ /\ answer.ok
     /\ pending.kind = "deleteClassroom"
     /\ IF pending.then = "resetClassroomForm"
        THEN /\ classroomForm' = ClassroomFormDefaults
             /\ classroomEditingId' = 0
             /\ classroomFormMode' = "create"
        ELSE UNCHANGED <<classroomForm, classroomEditingId, classroomFormMode>>
     /\ classroomsError' = ""
     /\ pending' = [NoCall EXCEPT !.kind = "fetchClassrooms"]
     /\ UNCHANGED <<caller, users, schools, subjects, classrooms, usersError,
                    schoolsError, userActionStatus, userForm, userFormMode, userEditingId,
                    userFormStatus, userFormSubmitting, subjectForm, subjectFormMode,
                    subjectEditingId, subjectFormSubmitting, classroomFormStatus,
                    schoolForm, schoolFormMode, schoolEditingId, schoolFormStatus,
                    subjectFormStatus, subjectsError>>
     /\ UNCHANGED outsideDirectory
  \/ /\ ~answer.ok
     /\ pending.kind = "deleteClassroom"
     /\ classroomFormStatus' = IF answer.msg # "" THEN answer.msg ELSE MsgRemoveClassroom
     /\ pending' = NoCall
     /\ UNCHANGED <<caller, users, schools, subjects, classrooms, usersError,
                    schoolsError, classroomsError, userActionStatus, userForm,
                    userFormMode, userEditingId, userFormStatus, userFormSubmitting,
                    subjectForm, subjectFormMode, subjectEditingId, subjectFormSubmitting,
                    classroomForm, classroomFormMode, classroomEditingId, schoolForm,
                    schoolFormMode, schoolEditingId, schoolFormStatus, subjectFormStatus,
                    subjectsError>>
     /\ UNCHANGED outsideDirectory

\* loadClassrooms after fetchClassrooms settled
LoadClassroomsSettled(answer) ==
  \/ /\ answer.ok
     /\ pending.kind = "fetchClassrooms"
     /\ classrooms' = answer.data
     /\ pending' = NoCall
     /\ UNCHANGED <<caller, users, schools, subjects, usersError, schoolsError,
                    classroomsError, userActionStatus, userForm, userFormMode,
                    userEditingId, userFormStatus, userFormSubmitting, subjectForm,
                    subjectFormMode, subjectEditingId, subjectFormSubmitting,
                    classroomForm, classroomFormMode, classroomEditingId,
                    classroomFormStatus, schoolForm, schoolFormMode, schoolEditingId,
                    schoolFormStatus, subjectFormStatus, subjectsError>>
     /\ UNCHANGED outsideDirectory
  \/ /\ ~answer.ok
     /\ pending.kind = "fetchClassrooms"
     /\ classroomsError' = IF answer.msg # "" THEN answer.msg ELSE MsgLoadClassrooms
     /\ classrooms' = <<>>
     /\ pending' = NoCall
     /\ UNCHANGED <<caller, users, schools, subjects, usersError, schoolsError,
                    userActionStatus, userForm, userFormMode, userEditingId,
                    userFormStatus, userFormSubmitting, subjectForm, subjectFormMode,
                    subjectEditingId, subjectFormSubmitting, classroomForm,
                    classroomFormMode, classroomEditingId, classroomFormStatus,
                    schoolForm, schoolFormMode, schoolEditingId, schoolFormStatus,
                    subjectFormStatus, subjectsError>>
     /\ UNCHANGED outsideDirectory

\* the directory of caller c: as the hook is mounted (every collection is
\* useState([]), nothing loaded yet) or, loaded, after initializeDirectory: the
\* hook keeps the users of a manager's institution, and the service has applied
\* the school filter of the subjects and classrooms queries
InitDirectoryIn(c, loaded) ==
  /\ caller = c
  /\ users = IF loaded THEN SanitizeUsers(RemoteUsers) ELSE <<>>
  /\ schools = IF loaded THEN RemoteSchools ELSE <<>>
  /\ subjects = IF ~loaded THEN <<>>
                ELSE IF c.isAdmin THEN RemoteSubjects
                ELSE SelectSeq(RemoteSubjects, LAMBDA s : s.school_id = c.managerSchoolId)
  /\ classrooms = IF ~loaded THEN <<>>
                  ELSE IF c.isAdmin THEN RemoteClassrooms
                  ELSE SelectSeq(RemoteClassrooms, LAMBDA k : k.school_id = c.managerSchoolId)
  /\ usersError = ""
  /\ schoolsError = ""
  /\ classroomsError = ""
  /\ userActionStatus = ""
  /\ userForm = BuildUserFormDefaults
  /\ userFormMode = "create"
  /\ userEditingId = ""
  /\ userFormStatus = ""
  /\ userFormSubmitting = FALSE
  /\ subjectForm = SubjectFormDefaults
  /\ subjectFormMode = "create"
  /\ subjectEditingId = 0
  /\ subjectFormSubmitting = FALSE
  /\ classroomForm = ClassroomFormDefaults
  /\ classroomFormMode = "create"
  /\ classroomEditingId = 0
  /\ classroomFormStatus = ""
  /\ schoolForm = [name |-> <<>>, code |-> <<>>]
  /\ schoolFormMode = "create"
  /\ schoolEditingId = 0
  /\ schoolFormStatus = ""
  /\ pending = NoCall

\* the directory after initializeDirectory, for caller c
InitDirectoryOf(c) == InitDirectoryIn(c, TRUE)

(* ---------------------------------------------------------------------- *)
(* ClassroomAssignmentsPanel: the teacher of each subject of a classroom    *)
(* ---------------------------------------------------------------------- *)

\* useState<ClassroomAssignments | null>(null)
NoAssignments == [classroom_id |-> 0, assignments |-> <<>>]

\* no updateClassroomAssignments is in flight
NoSave == [classroomId |-> 0, payload |-> NoAssignments]

\* status lines of the panel
MsgLoadingAssignments == "Carregando atribuicoes..."
MsgLoadAssignments == "Nao foi possivel carregar as atribuicoes desta turma."
MsgSavingAssignments == "Salvando atribuicoes..."
MsgAssignmentsSaved == "Atribuicoes atualizadas com sucesso!"
MsgSaveAssignments == "Nao foi possivel salvar as atribuicoes."

\* Gestor: professorDirectory, the teachers prop of the panel
ProfessorDirectory == SelectSeq(users, LAMBDA user : user.role = "professor")

\* selectedClassroom: classrooms.find(...) ?? null, as a list of at most one
SelectedClassroom == SelectSeq(classrooms, LAMBDA classroom : classroom.id = selectedClassroomId)

\* classroomSubjects
ClassroomSubjects == IF SelectedClassroom # <<>> THEN SelectedClassroom[1].subject_ids ELSE <<>>

\* eligibleTeachersBySubject[subjectId] || []
EligibleTeachers(subjectId) ==
  IF \E subject \in Range(subjects) : subject.id = subjectId
  THEN SelectSeq(ProfessorDirectory,
                 LAMBDA teacher : subjectId \in Range(teacher.teachable_subject_ids))
  ELSE <<>>

\* teacherList of the row of subjectId
TeacherList(subjectId) ==
  SelectSeq(EligibleTeachers(subjectId),
            LAMBDA teacher : teacher.school_id = SelectedClassroom[1].school_id)

\* the teachers the service may hold for a subject of a classroom: none, or a
\* teacher of the classroom's school who is eligible for the subject
RemoteTeacherChoices(classroom, subjectId) ==
  {""} \cup {user.id : user \in
               {u \in Range(RemoteUsers) : /\ u.role = "professor"
                                           /\ u.school_id = classroom.school_id
                                           /\ subjectId \in Range(u.teachable_subject_ids)}}

\* answers of the service to fetchClassroomAssignments(classroomId): one entry
\* for the classroom's subject (classrooms of the sample have one subject)
AssignmentAnswers(classroomId) ==
  LET classroom == CHOOSE k \in Range(RemoteClassrooms) : k.id = classroomId
  IN { [classroom_id |-> classroomId,
        assignments |-> << [subject_id |-> classroom.subject_ids[1], teacher_id |-> teacherId] >>]
       : teacherId \in RemoteTeacherChoices(classroom, classroom.subject_ids[1]) }

\* a list without its i-th element
RemoveAt(list, i) == SubSeq(list, 1, i - 1) \o SubSeq(list, i + 1, Len(list))

\* onChange of the classroom select, and the effect on [selectedClassroomId]
SelectClassroom(value) ==
  /\ value = 0 \/ \E classroom \in Range(classrooms) : classroom.id = value
  /\ value # selectedClassroomId
  /\ selectedClassroomId' = value
  /\ IF value = 0
     THEN /\ assignments' = NoAssignments
          /\ UNCHANGED <<assignmentsStatus, assignmentsLoading, assignmentLoads>>
     ELSE /\ Len(assignmentLoads) < MaxLoads
          /\ assignmentsLoading' = TRUE
          /\ assignmentsStatus' = MsgLoadingAssignments
          /\ assignmentLoads' = Append(assignmentLoads, value)
          /\ UNCHANGED assignments
  /\ UNCHANGED <<saving, assignmentSave>>
  /\ UNCHANGED outsidePanel

\* fetchClassroomAssignments settled: then / catch, and finally, of the effect
LoadAssignmentsSettled(i, answer) ==
  \/ /\ answer.ok
     /\ i \in DOMAIN assignmentLoads
     /\ answer.data \in AssignmentAnswers(assignmentLoads[i])
     /\ assignments' = answer.data
     /\ assignmentsStatus' = ""
     /\ assignmentsLoading' = FALSE
     /\ assignmentLoads' = RemoveAt(assignmentLoads, i)
     /\ UNCHANGED <<selectedClassroomId, saving, assignmentSave>>
     /\ UNCHANGED outsidePanel
  \/ /\ ~answer.ok
     /\ i \in DOMAIN assignmentLoads
     /\ assignmentsStatus' = IF answer.msg # "" THEN answer.msg ELSE MsgLoadAssignments
     /\ assignments' = NoAssignments
     /\ assignmentsLoading' = FALSE
     /\ assignmentLoads' = RemoveAt(assignmentLoads, i)
     /\ UNCHANGED <<selectedClassroomId, saving, assignmentSave>>
     /\ UNCHANGED outsidePanel

\* assignments.assignments.map(...) of handleTeacherChange
ChangeTeacher(entries, subjectId, teacherId) ==
  [i \in DOMAIN entries |->
     IF entries[i].subject_id = subjectId
     THEN [subject_id |-> subjectId, teacher_id |-> teacherId]
     ELSE entries[i]]

\* handleTeacherChange, from the select of a row the panel renders
HandleTeacherChange(subjectId, teacherId) ==
  /\ assignments # NoAssignments
  /\ ~saving
  /\ subjectId \in Range(ClassroomSubjects)
  /\ TeacherList(subjectId) # <<>>
  /\ teacherId = "" \/ \E teacher \in Range(TeacherList(subjectId)) : teacher.id = teacherId
  /\ assignments' = [assignments EXCEPT
                       !.assignments = ChangeTeacher(assignments.assignments, subjectId, teacherId)]
  /\ assignments' # assignments
  /\ UNCHANGED <<selectedClassroomId, assignmentsStatus, assignmentsLoading, saving,
                 assignmentLoads, assignmentSave>>
  /\ UNCHANGED outsidePanel

\* handleSave up to its remote call, from the button the panel renders
HandleSave ==
  /\ assignments # NoAssignments
  /\ selectedClassroomId # 0
  /\ ~saving
  /\ ClassroomSubjects # <<>>
  /\ saving' = TRUE
  /\ assignmentsStatus' = MsgSavingAssignments
  /\ assignmentSave' = [classroomId |-> selectedClassroomId, payload |-> assignments]
  /\ UNCHANGED <<selectedClassroomId, assignments, assignmentsLoading, assignmentLoads>>
  /\ UNCHANGED outsidePanel

\* handleSave after updateClassroomAssignments settled
SaveSettled(answer) ==
  \/ /\ answer.ok
     /\ assignmentSave # NoSave
     /\ assignmentsStatus' = MsgAssignmentsSaved
     /\ saving' = FALSE
     /\ assignmentSave' = NoSave
     /\ UNCHANGED <<selectedClassroomId, assignments, assignmentsLoading, assignmentLoads>>
     /\ UNCHANGED outsidePanel
  \/ /\ ~answer.ok
     /\ assignmentSave # NoSave
     /\ assignmentsStatus' = IF answer.msg # "" THEN answer.msg ELSE MsgSaveAssignments
     /\ saving' = FALSE
     /\ assignmentSave' = NoSave
     /\ UNCHANGED <<selectedClassroomId, assignments, assignmentsLoading, assignmentLoads>>
     /\ UNCHANGED outsidePanel

\* the panel as mounted
InitPanel ==
  /\ selectedClassroomId = 0
  /\ assignments = NoAssignments
  /\ assignmentsStatus = ""
  /\ assignmentsLoading = FALSE
  /\ saving = FALSE
  /\ assignmentLoads = <<>>
  /\ assignmentSave = NoSave

(* ---------------------------------------------------------------------- *)
(* useTriggerAlerts and Gestor.handleResolveAlert: the two alert views      *)
(* ---------------------------------------------------------------------- *)

\* the alerts of the sample, and the two instances of the hook on the page:
\* triggerAlerts and resolvedAlerts
AlertIds == {1, 2}
Views == {"triggerAlerts", "resolvedAlerts"}

\* options.includeResolved of an instance
IncludeResolved(view) == view = "resolvedAlerts"

\* notices of the hook
MsgNoActiveAlerts == "Nenhum alerta esta ativo no momento."
MsgNoResolvedAlerts == "Nenhum alerta resolvido ate o momento."
MsgAlertResolved == "Alerta marcado como resolvido."

\* error messages a rejected alert call may carry ("" stands for none)
AlertErrors == {"", MsgFailedToFetch}

\* useTriggerAlerts.friendlyMessage
AlertFriendlyMessage(msg) ==
  IF msg = "" THEN "Ainda nao conseguimos carregar os alertas. Tente novamente em instantes."
  ELSE IF msg = "Nenhum feedback disponivel"
  THEN "Nenhum alerta foi encontrado para este periodo."
  ELSE IF msg \in {"NetworkError when attempting to fetch resource.", "Failed to fetch"}
  THEN "Nao conseguimos falar com o servidor agora."
  ELSE msg

\* options.emptyMessage || (options.includeResolved ? ... : ...)
EmptyNotice(view) ==
  IF view = "resolvedAlerts" \/ IncludeResolved(view) THEN MsgNoResolvedAlerts
  ELSE MsgNoActiveAlerts

\* what the service answers to fetchTriggerAlerts: the alerts without a
\* resolution, and with include_resolved the resolved ones as well
TriggerAlertsOf(remote, includeResolved) ==
  SelectSeq(<<[id |-> 1, resolved |-> remote[1]], [id |-> 2, resolved |-> remote[2]]>>,
            LAMBDA alert : includeResolved \/ ~alert.resolved)

\* ids of the alerts of a list
AlertIdsOf(list) == {list[i].id : i \in DOMAIN list}

\* the runs of handleResolveAlert the page may have in progress
FlowIds == 1..MaxFlows

\* a resolve flow at rest: no run of handleResolveAlert holds the slot
\*   alert       feedback.id of the row whose button started the run
\*   pc          "idle", "resolving", "reloadActive", "reloadResolved"
\*   resolved    resolveTriggerAlert resolved
\*   activeOk    the reload of triggerAlerts resolved
\*   resolvedOk  the reload of resolvedAlerts resolved
IdleFlow ==
  [alert |-> 0, pc |-> "idle", resolved |-> FALSE, activeOk |-> FALSE, resolvedOk |-> FALSE]

\* a fetchTriggerAlerts in flight: its hook instance, the resolve flow that
\* awaits it (0: the effect or the refresh button), and the answer once the
\* service has computed it
AlertLoad(view, flow) == [view |-> view, flow |-> flow, served |-> FALSE, data |-> <<>>]

\* loadAlerts up to its await, on the hooks record
StartLoad(hooks, view) == [hooks EXCEPT ![view].loading = TRUE, ![view].notice = ""]

\* setResolvingId((current) => (current === feedbackId ? null : current))
ClearResolving(hooks, id) ==
  [hooks EXCEPT !["triggerAlerts"].resolvingId = IF @ = id THEN 0 ELSE @]

\* onRefresh of a feed: loadAlerts of its instance up to its await
RefreshAlerts(view) ==
  /\ Cardinality({load \in alertLoads : load.flow = 0}) < MaxRefreshes
  /\ AlertLoad(view, 0) \notin alertLoads
  /\ alertHooks' = StartLoad(alertHooks, view)
  /\ alertLoads' = alertLoads \cup {AlertLoad(view, 0)}
  /\ UNCHANGED <<remoteAlerts, resolveFlows>>
  /\ UNCHANGED outsideAlerts

\* the service computes the answer of a fetchTriggerAlerts
ServeAlerts(load) ==
  /\ load \in alertLoads
  /\ ~load.served
  /\ alertLoads' = (alertLoads \ {load}) \cup
       {[load EXCEPT !.served = TRUE,
                     !.data = TriggerAlertsOf(remoteAlerts, IncludeResolved(load.view))]}
  /\ UNCHANGED <<remoteAlerts, alertHooks, resolveFlows>>
  /\ UNCHANGED outsideAlerts

\* what follows a loadAlerts that a resolve flow awaited: after the one of
\* triggerAlerts, the rest of handleResolve and then loadAlerts of
\* resolvedAlerts; after the one of resolvedAlerts, the end of the flow
AfterLoad(hooks, load) ==
  IF load.flow = 0 \/ load.view = "resolvedAlerts" THEN hooks
  ELSE StartLoad(
         ClearResolving([hooks EXCEPT !["triggerAlerts"].notice = MsgAlertResolved],
                        resolveFlows[load.flow].alert),
         "resolvedAlerts")

FlowsAfterLoad(load, ok) ==
  IF load.flow = 0 THEN resolveFlows
  ELSE IF load.view = "triggerAlerts"
  THEN [resolveFlows EXCEPT ![load.flow].pc = "reloadResolved", ![load.flow].activeOk = ok]
  ELSE [resolveFlows EXCEPT ![load.flow].pc = "idle", ![load.flow].resolvedOk = ok]

LoadsAfterLoad(load) ==
  IF load.flow # 0 /\ load.view = "triggerAlerts"
  THEN (alertLoads \ {load}) \cup {AlertLoad("resolvedAlerts", load.flow)}
  ELSE alertLoads \ {load}

\* loadAlerts after fetchTriggerAlerts settled, and what its caller does next
LoadAlertsSettled(load, answer) ==
  \/ /\ answer.ok
     /\ load \in alertLoads
     /\ load.served
     /\ alertHooks' =
          AfterLoad([alertHooks EXCEPT
                       ![load.view].alerts = load.data,
                       ![load.view].notice = IF load.data = <<>> THEN EmptyNotice(load.view) ELSE @,
                       ![load.view].loading = FALSE],
                    load)
     /\ resolveFlows' = FlowsAfterLoad(load, TRUE)
     /\ alertLoads' = LoadsAfterLoad(load)
     /\ UNCHANGED remoteAlerts
     /\ UNCHANGED outsideAlerts
  \/ /\ ~answer.ok
     /\ load \in alertLoads
     /\ alertHooks' =
          AfterLoad([alertHooks EXCEPT
                       ![load.view].alerts = <<>>,
                       ![load.view].notice = AlertFriendlyMessage(answer.msg),
                       ![load.view].loading = FALSE],
                    load)
     /\ resolveFlows' = FlowsAfterLoad(load, FALSE)
     /\ alertLoads' = LoadsAfterLoad(load)
     /\ UNCHANGED remoteAlerts
     /\ UNCHANGED outsideAlerts

\* the rows of the active feed are rendered while it is not loading, and the
\* button of a row is disabled while resolvingId is the row's id
ResolveButtonEnabled(id) ==
  /\ ~alertHooks["triggerAlerts"].loading
  /\ id \in AlertIdsOf(alertHooks["triggerAlerts"].alerts)
  /\ alertHooks["triggerAlerts"].resolvingId # id

\* handleResolveAlert and handleResolve up to resolveTriggerAlert, from the
\* button of a row of the active feed
ResolveAlert(id) ==
  /\ ResolveButtonEnabled(id)
  /\ \E flow \in FlowIds :
       /\ resolveFlows[flow].pc = "idle"
       /\ \A other \in FlowIds : other < flow => resolveFlows[other].pc # "idle"
       /\ resolveFlows' =
            [resolveFlows EXCEPT ![flow] = [IdleFlow EXCEPT !.alert = id, !.pc = "resolving"]]
  /\ alertHooks' = [alertHooks EXCEPT !["triggerAlerts"].resolvingId = id]
  /\ UNCHANGED <<remoteAlerts, alertLoads>>
  /\ UNCHANGED outsideAlerts

\* handleResolve after resolveTriggerAlert settled: resolved, the service has
\* recorded the resolution and loadAlerts of triggerAlerts starts; rejected,
\* catch and finally, then handleResolveAlert calls loadAlerts of resolvedAlerts
ResolveSettled(flow, answer) ==
  \/ /\ answer.ok
     /\ resolveFlows[flow].pc = "resolving"
     /\ remoteAlerts' = [remoteAlerts EXCEPT ![resolveFlows[flow].alert] = TRUE]
     /\ alertHooks' = StartLoad(alertHooks, "triggerAlerts")
     /\ resolveFlows' = [resolveFlows EXCEPT ![flow].pc = "reloadActive", ![flow].resolved = TRUE]
     /\ alertLoads' = alertLoads \cup {AlertLoad("triggerAlerts", flow)}
     /\ UNCHANGED outsideAlerts
  \/ /\ ~answer.ok
     /\ resolveFlows[flow].pc = "resolving"
     /\ alertHooks' =
          StartLoad(
            ClearResolving([alertHooks EXCEPT !["triggerAlerts"].notice = AlertFriendlyMessage(answer.msg)],
                           resolveFlows[flow].alert),
            "resolvedAlerts")
     /\ resolveFlows' = [resolveFlows EXCEPT ![flow].pc = "reloadResolved"]
     /\ alertLoads' = alertLoads \cup {AlertLoad("resolvedAlerts", flow)}
     /\ UNCHANGED remoteAlerts
     /\ UNCHANGED outsideAlerts

\* the page after the effect of each instance has loaded its view, with the
\* alerts of the service still active
InitAlerts ==
  /\ remoteAlerts = [id \in AlertIds |-> FALSE]
  /\ alertHooks =
       [view \in Views |->
          [alerts |-> TriggerAlertsOf([id \in AlertIds |-> FALSE], IncludeResolved(view)),
           loading |-> FALSE, notice |-> "", resolvingId |-> 0]]
  /\ resolveFlows = [flow \in FlowIds |-> IdleFlow]
  /\ alertLoads = {}

(* ---------------------------------------------------------------------- *)
(* Professor.handleReportFeedback: reporting a received feedback            *)
(* ---------------------------------------------------------------------- *)

\* the received feedbacks of the sample
ReportIds == {1, 2}

\* what the service answers to the page's loadFeedbacks: the received list
ReceivedRows(flags) ==
  <<[id |-> 1, has_trigger |-> flags[1]], [id |-> 2, has_trigger |-> flags[2]]>>

\* what window.prompt returns: null on cancel, else the text typed
ReasonInputs ==
  { <<>>, <<" ", " ", " ", " ", " ">>, <<"r", "i", "s", "k">>,
    <<" ", "r", "i", "s", "k", " ">>, <<"r", "i", "s", "c", "o">>,
    <<" ", "r", "i", "s", "c", "o", " ">> }
Prompts ==
  {[cancelled |-> TRUE, text |-> <<>>]}
  \cup {[cancelled |-> FALSE, text |-> text] : text \in ReasonInputs}

\* status lines of the report action
MsgAlreadyReported == "Este feedback ja esta em analise."
MsgReasonTooShort == "Explique o motivo em pelo menos 5 caracteres."
MsgSendingReport == "Enviando alerta para a gestao..."
MsgReportSent == "Alerta registrado e enviado para a gestao."
MsgReportFailed == "Nao foi possivel reportar este feedback."

\* error messages a rejected report may carry ("" stands for none)
ReportErrors == {"", MsgConflict}

\* runs of handleReportFeedback in progress at a time (call or reloads)
MaxReports == 2

\* trimmed.length < 5, with the check on the empty string only
ReasonRejectedWhenEmpty(trimmed) == Len(trimmed) < 1

\* trimmed.length < 5
ReasonRejected(trimmed) == Len(trimmed) < 5

\* handleReportFeedback up to its await, from the button of a listed row
HandleReportFeedback(row, prompt) ==
  /\ row \in Range(professorRows)
  /\ Len(reportCalls) + reportLoads.feedbacks < MaxReports
  /\ Len(reportCalls) + reportLoads.alerts < MaxReports
  /\ IF row.has_trigger
     THEN /\ reportStatus' = MsgAlreadyReported
          /\ UNCHANGED reportCalls
     ELSE IF prompt.cancelled
     THEN UNCHANGED <<reportStatus, reportCalls>>
     ELSE IF ReasonRejected(Trim(prompt.text))
     THEN /\ reportStatus' = MsgReasonTooShort
          /\ UNCHANGED reportCalls
     ELSE /\ reportStatus' = MsgSendingReport
          /\ reportCalls' = Append(reportCalls, [id |-> row.id, reason |-> Trim(prompt.text)])
  /\ UNCHANGED <<professorRows, reportLoads, remoteFlags>>
  /\ UNCHANGED outsideReport

\* handleReportFeedback after reportFeedback settled: resolved, the service
\* has flagged the event and both lists are reloaded; rejected, the catch
ReportSettled(i, answer) ==
  /\ i \in DOMAIN reportCalls
  /\ reportCalls' = RemoveAt(reportCalls, i)
  /\ IF answer.ok
     THEN /\ remoteFlags' = [remoteFlags EXCEPT ![reportCalls[i].id] = TRUE]
          /\ reportStatus' = MsgReportSent
          /\ reportLoads' = [feedbacks |-> reportLoads.feedbacks + 1,
                             alerts |-> reportLoads.alerts + 1]
     ELSE /\ reportStatus' = IF answer.msg = "" THEN MsgReportFailed ELSE answer.msg
          /\ UNCHANGED <<remoteFlags, reportLoads>>
  /\ UNCHANGED professorRows
  /\ UNCHANGED outsideReport

\* usePersonalFeedbacks.loadFeedbacks of the page after fetchMyFeedbacks settled
ReportFeedbacksLoaded(answer) ==
  /\ reportLoads.feedbacks > 0
  /\ reportLoads' = [reportLoads EXCEPT !.feedbacks = @ - 1]
  /\ professorRows' = IF answer.ok THEN ReceivedRows(remoteFlags) ELSE <<>>
  /\ UNCHANGED <<reportStatus, reportCalls, remoteFlags>>
  /\ UNCHANGED outsideReport

\* triggerAlerts.loadAlerts of the page settled; the page shows no alert list
ReportAlertsLoaded ==
  /\ reportLoads.alerts > 0
  /\ reportLoads' = [reportLoads EXCEPT !.alerts = @ - 1]
  /\ UNCHANGED <<professorRows, reportStatus, reportCalls, remoteFlags>>
  /\ UNCHANGED outsideReport

\* the Professor page after its effect has loaded the received list, the
\* service holding flags
InitReport(flags) ==
  /\ remoteFlags = flags
  /\ professorRows = ReceivedRows(remoteFlags)
  /\ reportStatus = ""
  /\ reportCalls = <<>>
  /\ reportLoads = [feedbacks |-> 0, alerts |-> 0]

(* ---------------------------------------------------------------------- *)
(* useTriggerKeywords: the monitored words of the alerts section            *)
(* ---------------------------------------------------------------------- *)

\* callers of the hook besides the two of the directory: a manager whose
\* session has no institution, and an administrator whose session has one
ManagerWithoutSchool == [isAdmin |-> FALSE, isManager |-> TRUE, managerSchoolId |-> 0]
AdminWithSchool == [isAdmin |-> TRUE, isManager |-> FALSE, managerSchoolId |-> 2]
KeywordCallers == Callers \cup {ManagerWithoutSchool, AdminWithSchool}

\* what the caller of handleCreate may pass
KeywordInputs == { <<>>, <<" ", " ">>, <<"w">>, <<" ", "w", " ">>, <<"x">> }

\* what the service may answer to fetchTriggerKeywords
KeywordLists ==
  { <<>>, <<[id |-> 1, keyword |-> <<"w">>]>>,
    <<[id |-> 1, keyword |-> <<"w">>], [id |-> 2, keyword |-> <<"x">>]>> }

\* status lines of the hook
MsgKeywordRequired == "Informe uma palavra para monitorar."
MsgKeywordNeedsSchool == "Seu perfil precisa estar associado a uma unidade."
MsgKeywordSaving == "Registrando palavra..."
MsgKeywordAdded == "Palavra adicionada com sucesso."
MsgKeywordSaveFailed == "Nao foi possivel salvar a palavra."
MsgKeywordLoadFailed == "Nao foi possivel carregar as palavras monitoradas."

\* no remote call of the hook is in flight
NoKeywordCall == [kind |-> "none", payload |-> <<>>]

\* { keyword, school_id: schoolId ?? undefined }, whatever isAdmin is
KeywordPayloadIgnoresAdmin(keyword) ==
  Field("keyword", keyword, TRUE)
  @@ Field("school_id", caller.managerSchoolId, caller.managerSchoolId # 0)

\* { keyword, school_id: isAdmin ? undefined : schoolId ?? undefined }
KeywordPayload(keyword) ==
  Field("keyword", keyword, TRUE)
  @@ Field("school_id", caller.managerSchoolId, ~caller.isAdmin /\ caller.managerSchoolId # 0)

\* handleCreate up to its remote call, from the form of TriggerKeywordsCard
\* (disabled while submitting)
HandleCreate(keyword) ==
  /\ ~keywordSubmitting
  /\ keywordCall = NoKeywordCall
  /\ IF Trim(keyword) = <<>>
     THEN /\ keywordStatus' = MsgKeywordRequired
          /\ UNCHANGED <<keywordSubmitting, keywordCall>>
     ELSE IF ~caller.isAdmin /\ caller.managerSchoolId = 0
     THEN /\ keywordStatus' = MsgKeywordNeedsSchool
          /\ UNCHANGED <<keywordSubmitting, keywordCall>>
     ELSE /\ keywordSubmitting' = TRUE
          /\ keywordStatus' = MsgKeywordSaving
          /\ keywordCall' = [kind |-> "createTriggerKeyword", payload |-> KeywordPayload(keyword)]
  /\ UNCHANGED <<keywords, keywordsError>>
  /\ UNCHANGED outsideKeywords

\* handleCreate after createTriggerKeyword settled: resolved, loadKeywords up
\* to its await; rejected, catch and finally
CreateKeywordSettled(answer) ==
  /\ keywordCall.kind = "createTriggerKeyword"
  /\ IF answer.ok
     THEN /\ keywordStatus' = MsgKeywordAdded
          /\ keywordsError' = ""
          /\ keywordCall' = [kind |-> "fetchTriggerKeywords",
                             payload |-> Field("school_id", caller.managerSchoolId,
                                               ~caller.isAdmin /\ caller.managerSchoolId # 0)]
          /\ UNCHANGED keywordSubmitting
     ELSE /\ keywordStatus' = IF answer.msg = "" THEN MsgKeywordSaveFailed ELSE answer.msg
          /\ keywordSubmitting' = FALSE
          /\ keywordCall' = NoKeywordCall
          /\ UNCHANGED keywordsError
  /\ UNCHANGED keywords
  /\ UNCHANGED outsideKeywords

\* loadKeywords after fetchTriggerKeywords settled, and the finally of handleCreate
LoadKeywordsSettled(answer) ==
  /\ keywordCall.kind = "fetchTriggerKeywords"
  /\ keywords' = IF answer.ok THEN answer.data ELSE <<>>
  /\ keywordsError' = IF answer.ok THEN keywordsError
                      ELSE IF answer.msg = "" THEN MsgKeywordLoadFailed ELSE answer.msg
  /\ keywordSubmitting' = FALSE
  /\ keywordCall' = NoKeywordCall
  /\ UNCHANGED keywordStatus
  /\ UNCHANGED outsideKeywords

\* the hook before any word was added
InitKeywords ==
  /\ keywords = <<>>
  /\ keywordsError = ""
  /\ keywordStatus = ""
  /\ keywordSubmitting = FALSE
  /\ keywordCall = NoKeywordCall

(* ---------------------------------------------------------------------- *)
(* context/AuthContext.tsx login, logout                                   *)
(* ---------------------------------------------------------------------- *)
\* the call whose locals hold the refresh() that login awaits; the other
\* call is the refresh() of the provider's mount effect
LoginCall == "B"

\* what a consumer of the context passes as email and as password
LoginEmails == { <<" ">>, <<"A", " ">> }
LoginPasswords == { <<>>, <<"p">> }

\* what the login endpoint answers: response not ok, ok without access_token,
\* fetch rejected, ok with a token
LoginAnswers == {"rejected", "noToken", "threw", "token"}

MsgLoginBlank == "Informe usuario e senha para continuar."
MsgLoginInvalid == "Credenciais invalidas."
MsgLoginNoToken == "Token nao retornado pelo servidor."
MsgLoginProfile == "Nao foi possivel carregar seu perfil."
MsgLoginThrew == "Failed to fetch"

\* no login was called yet
NoLogin == [pc |-> "idle", email |-> <<>>, message |-> "", role |-> "none"]

\* login rejects with msg
LoginFailed(msg) == [loginRun EXCEPT !.pc = "failed", !.message = msg, !.role = "none"]

\* the catch branch of login: clearToken, setSession(null), rethrow
LoginCaught(msg) ==
  /\ tokenStore' = NoToken
  /\ session' = "none"
  /\ loginRun' = LoginFailed(msg)

\* what the session's and the login's steps leave alone
outsideLogin == <<feedbackVars, directoryVars, panelVars, alertVars, reportVars, keywordVars>>

\* login(email, password) up to its first suspension: blank input throws
\* before the try block, otherwise the credentials are posted
Login(email, password) ==
  /\ loginRun.pc \in {"idle", "failed", "done"}
  /\ LET normalizedEmail == ToLowerCase(Trim(email))
         normalizedPassword == Trim(password) IN
     IF normalizedEmail = <<>> \/ normalizedPassword = <<>>
     THEN loginRun' = LoginFailed(MsgLoginBlank)
     ELSE loginRun' = [NoLogin EXCEPT !.pc = "posting", !.email = normalizedEmail]
  /\ UNCHANGED sessionVars
  /\ UNCHANGED outsideLogin

\* the login request is answered: the failures go to the catch branch; a
\* token is saved and refresh() runs up to its first suspension inside
\* ensureValidAccessToken, which reads the token just saved
LoginSettled(answer) ==
  /\ loginRun.pc = "posting"
  /\ CASE answer = "rejected" ->
            LoginCaught(MsgLoginInvalid) /\ UNCHANGED <<minted, call>>
       [] answer = "noToken" ->
            LoginCaught(MsgLoginNoToken) /\ UNCHANGED <<minted, call>>
       [] answer = "threw" ->
            LoginCaught(MsgLoginThrew) /\ UNCHANGED <<minted, call>>
       [] OTHER ->
            /\ minted < MaxTokens
            /\ \E e \in ExpValues :
                 LET t == [id |-> minted + 1, exp |-> e]
                     l == [Idle EXCEPT !.op = "me"] IN
                 /\ tokenStore' = t
                 /\ call' = [call EXCEPT ![LoginCall] =
                      IF IsTokenExpired(t, DefaultSkew)
                      THEN [l EXCEPT !.pc = "evRefresh", !.presented = t, !.evReqs = 1]
                      ELSE [l EXCEPT !.pc = "evReturned", !.evResult = t]]
            /\ minted' = minted + 1
            /\ loginRun' = [loginRun EXCEPT !.pc = "profile"]
            /\ UNCHANGED session
  /\ UNCHANGED <<now, subjectFormStatus, subjectsError>>
  /\ UNCHANGED outsideLogin

\* refresh() of login resolved with null (it has cleared the token and the
\* session): login throws, and its catch branch clears them again
LoginProfileMissing ==
  /\ LoginCaught(MsgLoginProfile)
  /\ call' = [call EXCEPT ![LoginCall] = Over(@, "done")]

\* fetchCurrentUser of login's refresh() after ensureValidAccessToken resolved
LoginMeDispatch ==
  /\ loginRun.pc = "profile"
  /\ call[LoginCall].pc = "evReturned"
  /\ IF call[LoginCall].evResult = NoToken
     THEN LoginProfileMissing
     ELSE /\ call' = [call EXCEPT ![LoginCall] =
                [@ EXCEPT !.headers = call[LoginCall].evResult,
                          !.dispatched = @ + 1,
                          !.pc = "fetching"]]
          /\ UNCHANGED <<tokenStore, session, loginRun>>
  /\ UNCHANGED <<now, minted, subjectFormStatus, subjectsError>>
  /\ UNCHANGED outsideLogin

\* the current-user read of login's refresh() is answered: login returns the
\* role of the session that refresh() set, or fails
LoginMeRespond(st, role) ==
  /\ loginRun.pc = "profile"
  /\ call[LoginCall].pc = "fetching"
  /\ st \in {200, 401, 403, 500, -1}
  /\ st # 200 => role = "outro"
  /\ IF st = 200 /\ NormalizeSession(role) # "none"
     THEN /\ session' = NormalizeSession(role)
          /\ call' = [call EXCEPT ![LoginCall] = Over([@ EXCEPT !.status = st], "done")]
          /\ loginRun' = [loginRun EXCEPT !.pc = "done", !.role = NormalizeSession(role)]
          /\ UNCHANGED tokenStore
     ELSE /\ LoginCaught(MsgLoginProfile)
          /\ call' = [call EXCEPT ![LoginCall] = Over([@ EXCEPT !.status = st], "done")]
  /\ UNCHANGED <<now, minted, subjectFormStatus, subjectsError>>
  /\ UNCHANGED outsideLogin

\* logout, from the header of a page that is shown to a session
Logout ==
  /\ session # "none"
  /\ tokenStore' = NoToken
  /\ session' = "none"
  /\ UNCHANGED <<now, minted, subjectFormStatus, subjectsError, call, loginRun>>
  /\ UNCHANGED outsideLogin

\* the pages and hooks outside the directory, panel and alert views, at rest
InitPages ==
  /\ InitReport([id \in ReportIds |-> FALSE])
  /\ InitKeywords
  /\ loginRun = NoLogin

\* the panels a specification leaves at rest
InitScreens == InitPanel /\ InitAlerts /\ InitPages

\* the directory as the other screens' specifications hold it
InitDirectory == InitDirectoryIn(AdminCaller, FALSE) /\ InitScreens

\* the hooks' initial state: useState([]) / useState({sent: [], received: []})
InitHooks ==
  /\ feedbacks = <<>>
  /\ feedbacksNotice = ""
  /\ stats = OverviewStats(<<>>)
  /\ userIndex = UserAggregates(<<>>)
  /\ analytics = Analytics(userIndex)
  /\ personalFeedbacks = [sent |-> <<>>, received |-> <<>>]
  /\ personalNotice = ""
  /\ personalStats = PersonalStats(<<>>)

InitFeedback ==
  /\ InitHooks
  /\ remoteFeedbacks = <<>>
  /\ remoteMine = [sent |-> <<>>, received |-> <<>>]

\* a signed-in session with no call in progress
InitSignedIn ==
  /\ tokenStore = [id |-> 1, exp |-> DefaultSkew + MaxNow + 1]
  /\ now = 0
  /\ minted = 1
  /\ session = "admin"
  /\ subjectFormStatus = ""
  /\ subjectsError = ""
  /\ call = [c \in Calls |-> Idle]

Init == InitSession /\ InitFeedback /\ InitDirectory

\* session lifecycle: concurrent authenticated calls on the shared token store
Spec == Init /\ [][Next]_vars

\* the caller of the directory's authFetch calls and the caller of the
\* provider's refresh()
DirectoryCall == "A"
ProviderCall == "B"

NextCalls ==
  \/ AuthFetchStart(DirectoryCall)
  \/ \E c \in Calls : AuthFetchDispatch(c)
  \/ \E c \in Calls : AuthFetchUnauthorized(c)
  \/ \E c \in Calls : AuthFetchAfterRefresh(c)
  \/ \E c \in Calls : AuthFetchForbidden(c)
  \/ \E c \in Calls : \E st \in {409, 500} : \E body \in Bodies : AuthFetchNotOk(c, st, body)
  \/ \E c \in Calls : AuthFetchTransport(c)
  \/ \E c \in Calls : \E st \in {200, 204} : AuthFetchOk(c, st)
  \/ \E c \in Calls : RefreshOk(c)
  \/ \E c \in Calls : RefreshFail(c)
  \/ MeStart(ProviderCall)
  \/ \E c \in Calls : MeDispatch(c)
  \/ \E c \in Calls : \E st \in {200, 401, 403, 500, -1} : \E role \in UserRoles : MeRespond(c, st, role)
  \/ Tick

\* session lifecycle: the directory's authFetch calls (removal of a subject,
\* then the reload of the subjects) while the provider's refresh() runs
SpecCalls == Init /\ [][NextCalls]_vars

InitOverview == InitSignedIn /\ InitFeedback /\ InitDirectory

NextOverview ==
  \/ \E item \in FeedbackItems : RemoteFeedbackCreated(item)
  \/ LoadFeedbacksOk
  \/ \E msg \in LoadErrors : LoadFeedbacksFail(msg)

\* the management overview's feedback list and its stats
SpecOverview == InitOverview /\ [][NextOverview]_vars

InitPersonal == InitSignedIn /\ InitFeedback /\ InitDirectory

NextPersonal ==
  \/ \E item \in FeedbackItems : \E box \in {"sent", "received"} : RemoteMineCreated(item, box)
  \/ LoadMineOk
  \/ \E msg \in LoadErrors : LoadMineFail(msg)

\* the personal screen's feedback lists and their stats
SpecPersonal == InitPersonal /\ [][NextPersonal]_vars

InitAnalytics ==
  /\ InitSignedIn
  /\ InitHooks
  /\ remoteFeedbacks = BaseEvents
  /\ remoteMine = [sent |-> <<>>, received |-> <<>>]
  /\ InitDirectory

NextAnalytics ==
  \/ \E event \in AnalyticsEvents : RemoteEventRecorded(event)
  \/ LoadFeedbacksOk
  \/ \E msg \in LoadErrors : LoadFeedbacksFail(msg)

\* the management overview's per-person aggregates and rankings
SpecAnalytics == InitAnalytics /\ [][NextAnalytics]_vars

\* a signed-in session of caller c with no call in progress
InitSignedInAs(c) ==
  /\ tokenStore = [id |-> 1, exp |-> DefaultSkew + MaxNow + 1]
  /\ now = 0
  /\ minted = 1
  /\ session = IF c.isAdmin THEN "admin" ELSE "gestor"
  /\ subjectFormStatus = ""
  /\ subjectsError = ""
  /\ call = [k \in Calls |-> Idle]

InitUserForm ==
  \E c \in Callers : InitSignedInAs(c) /\ InitFeedback /\ InitDirectoryOf(c) /\ InitScreens

NextUserForm ==
  \/ \E value \in NameInputs : UserInputChange("full_name", value)
  \/ \E value \in MailInputs : UserInputChange("email", value)
  \/ \E value \in PasswordInputs : UserInputChange("password", value)
  \/ \E role \in {"", "admin", "gestor", "professor", "aluno"} : UserRoleChange(role)
  \/ \E value \in {"", "1", "2"} : UserSchoolChange(value)
  \/ \E selected \in {<<>>, <<"3">>, <<"4">>} : UserTeachableChange(selected)
  \/ \E value \in {"", "5", "6"} : UserClassroomChange(value)
  \/ ResetUserForm
  \/ \E user \in Range(RemoteUsers) : StartEditUser(user)
  \/ HandleUserSubmit
  \/ \E answer \in Settled({<<>>}, DirectoryErrors) : UserSubmitSettled(answer)
  \/ \E answer \in Settled(UserAnswers, DirectoryErrors) : LoadUsersSettled(answer)

\* the person form of the management screen
SpecUserForm == InitUserForm /\ [][NextUserForm]_vars

InitSubjects ==
  \E c \in Callers : InitSignedInAs(c) /\ InitFeedback /\ InitDirectoryOf(c) /\ InitScreens

NextSubjects ==
  \/ \E user \in Range(RemoteUsers) : StartEditUser(user)
  \/ ResetUserForm
  \/ \E value \in NameInputs : SubjectNameChange(value)
  \/ \E value \in {"", "1", "2"} : SubjectSchoolChange(value)
  \/ \E subject \in Range(RemoteSubjects) : StartEditSubject(subject)
  \/ ResetSubjectForm
  \/ HandleSubjectSubmit
  \/ \E answer \in Settled({<<>>}, DirectoryErrors) : SubjectSubmitSettled(answer)
  \/ \E answer \in Settled(Answers(RemoteSubjects), DirectoryErrors) : LoadSubjectsSettled(answer)

\* the subject panel of the management screen, beside the person form's mode
SpecSubjects == InitSubjects /\ [][NextSubjects]_vars

InitRemoval ==
  \E c \in Callers : InitSignedInAs(c) /\ InitFeedback /\ InitDirectoryOf(c) /\ InitScreens

NextRemoval ==
  \/ \E subject \in Range(RemoteSubjects) : StartEditSubject(subject)
  \/ \E schoolId \in 1 .. 2 : HandleDeleteSchool(schoolId)
  \/ \E answer \in Settled({<<>>}, DirectoryErrors) : DeleteSchoolSettled(answer)
  \/ \E answer \in Settled(Answers(RemoteSchools), {""}) : LoadSchoolsSettled(answer)
  \/ \E subjectId \in 3 .. 4 : HandleStructureDeleteSubject(subjectId)
  \/ \E answer \in Settled({<<>>}, DirectoryErrors) : DeleteSubjectSettled(answer)
  \/ \E answer \in Settled(Answers(RemoteSubjects), {""}) : LoadSubjectsSettled(answer)
  \/ \E classroomId \in 5 .. 6 : HandleDeleteClassroom(classroomId)
  \/ \E answer \in Settled({<<>>}, DirectoryErrors) : DeleteClassroomSettled(answer)
  \/ \E answer \in Settled(Answers(RemoteClassrooms), {""}) : LoadClassroomsSettled(answer)

\* the delete buttons of the school, subject and classroom tables
SpecRemoval == InitRemoval /\ [][NextRemoval]_vars

InitAssignments ==
  /\ \E c \in Callers : InitSignedInAs(c) /\ InitDirectoryOf(c)
  /\ InitFeedback
  /\ InitScreens

NextAssignments ==
  \/ \E value \in {0, 5, 6} : SelectClassroom(value)
  \/ \E i \in 1 .. MaxLoads + 1 :
       \E answer \in Settled(AssignmentAnswers(5) \cup AssignmentAnswers(6), DirectoryErrors) :
         LoadAssignmentsSettled(i, answer)
  \/ \E subjectId \in {3, 4} : \E teacherId \in {"", "u1", "u3"} :
       HandleTeacherChange(subjectId, teacherId)
  \/ HandleSave
  \/ \E answer \in Settled({<<>>}, DirectoryErrors) : SaveSettled(answer)

\* the assignments panel of the management screen
SpecAssignments == InitAssignments /\ [][NextAssignments]_vars

InitAlertsPage ==
  /\ InitSignedIn
  /\ InitFeedback
  /\ InitDirectoryOf(AdminCaller)
  /\ InitScreens

NextAlerts ==
  \/ \E view \in Views : RefreshAlerts(view)
  \/ \E load \in alertLoads : ServeAlerts(load)
  \/ \E load \in alertLoads : \E answer \in Settled({<<>>}, AlertErrors) : LoadAlertsSettled(load, answer)
  \/ \E id \in AlertIds : ResolveAlert(id)
  \/ \E flow \in FlowIds : \E answer \in Settled({<<>>}, AlertErrors) : ResolveSettled(flow, answer)

\* the alerts section of the management screen
SpecAlerts == InitAlertsPage /\ [][NextAlerts]_vars

InitProfessorPage ==
  /\ InitSignedIn
  /\ InitFeedback
  /\ InitDirectoryOf(AdminCaller)
  /\ InitPanel
  /\ InitAlerts
  /\ \E flags \in [ReportIds -> BOOLEAN] : InitReport(flags)
  /\ InitKeywords
  /\ loginRun = NoLogin

NextReport ==
  \/ \E row \in Range(professorRows) : \E prompt \in Prompts : HandleReportFeedback(row, prompt)
  \/ \E i \in 1..MaxReports : \E answer \in Settled({<<>>}, ReportErrors) : ReportSettled(i, answer)
  \/ \E answer \in Settled({<<>>}, {""}) : ReportFeedbacksLoaded(answer)
  \/ ReportAlertsLoaded

\* the report action of the Professor page
SpecReport == InitProfessorPage /\ [][NextReport]_vars

InitKeywordsPage ==
  \E c \in KeywordCallers : InitSignedInAs(c) /\ InitFeedback /\ InitDirectoryOf(c) /\ InitScreens

NextKeywords ==
  \/ \E keyword \in KeywordInputs : HandleCreate(keyword)
  \/ \E answer \in Settled({<<>>}, DirectoryErrors) : CreateKeywordSettled(answer)
  \/ \E answer \in Settled(KeywordLists, DirectoryErrors) : LoadKeywordsSettled(answer)

\* the monitored words of the alerts section
SpecKeywords == InitKeywordsPage /\ [][NextKeywords]_vars

\* the provider as it is mounted, with or without a token of an earlier visit
InitLoginPage == InitSession /\ InitFeedback /\ InitDirectory

\* the mount effect's refresh() runs in the other call
MountCall == "A"

NextLogin ==
  \/ \E email \in LoginEmails : \E password \in LoginPasswords : Login(email, password)
  \/ \E answer \in LoginAnswers : LoginSettled(answer)
  \/ LoginMeDispatch
  \/ \E st \in {200, 401, 403, 500, -1} : \E role \in UserRoles : LoginMeRespond(st, role)
  \/ Logout
  \/ MeStart(MountCall)
  \/ MeDispatch(MountCall)
  \/ \E st \in {200, 401, 403, 500, -1} : \E role \in UserRoles : MeRespond(MountCall, st, role)
  \/ \E c \in Calls : RefreshOk(c)
  \/ \E c \in Calls : RefreshFail(c)
  \/ Tick

\* signing in and out
SpecLogin == InitLoginPage /\ [][NextLogin]_vars

(* ---------------------------------------------------------------------- *)
(* Session lifecycle properties                                            *)
(* ---------------------------------------------------------------------- *)
RefreshInFlight == {c \in Calls : call[c].pc \in {"evRefresh", "rfRefresh"}}

\* the call c takes a step
Steps(c) == call'[c] # call[c]

\* the step in which c enters ensureValidAccessToken
EntersEnsureValid(c) ==
  /\ call[c].pc \in {"idle", "fetching", "rfReturned"}
  /\ call'[c].pc \in {"evReturned", "evRefresh"}

\* C1: after a 401 on its first dispatch authFetch makes one refresh attempt;
\* if the attempt yields a token the request is replayed exactly once; a 401
\* on the replay, or a refresh without token, clears the stored token and
\* fails with the session-expired error; the request is never dispatched a
\* third time.
C1_RefreshOnceReplayOnce ==
  [][\A c \in Calls :
       /\ call'[c].dispatched <= 2
       /\ call'[c].refreshReqs <= 1
       /\ (call[c].pc = "rfReturned" /\ call[c].refreshed # NoToken /\ Steps(c))
            => call'[c].pc = "evReturned"
       /\ (/\ call[c].refreshed # NoToken
           /\ call[c].pc \in {"evReturned", "evRefresh"}
           /\ Steps(c))
            => call'[c].pc = "fetching" /\ call'[c].dispatched = 2
       /\ (/\ call[c].op # "me"
           /\ \/ call[c].pc = "fetching" /\ call'[c].status = 401 /\ ~call[c].retryOn401
              \/ call[c].pc = "rfReturned" /\ call[c].refreshed = NoToken
           /\ Steps(c))
            => /\ call'[c].pc = "failed"
               /\ tokenStore' = NoToken
               /\ IF call[c].op = "deleteSubject"
                  THEN subjectFormStatus' = MsgSessionExpired
                  ELSE subjectsError' = MsgSessionExpired
  ]_vars

\* C2: a token stored by one call's successful refresh is never cleared, nor
\* replaced by an older token, because another call's refresh attempt made
\* with the token it replaced has failed: a call that clears the store after
\* its own refresh attempt failed finds there the token that attempt presented.
C2_RefreshedTokenNotLost ==
  [][\A c \in Calls :
       /\ (/\ \/ call[c].pc = "evReturned" /\ call[c].evReqs = 1 /\ call[c].evResult = NoToken
              \/ call[c].pc = "rfReturned" /\ call[c].presented # NoToken /\ call[c].refreshed = NoToken
           /\ Steps(c)
           /\ tokenStore # NoToken
           /\ tokenStore' = NoToken)
            => tokenStore = call[c].presented
       /\ (tokenStore # NoToken /\ tokenStore' # NoToken)
            => tokenStore'.id >= tokenStore.id
  ]_vars

\* C3: at most one token-refresh request is in flight at any time.
C3_SingleRefreshInFlight == Cardinality(RefreshInFlight) <= 1

\* C4: ensureValidAccessToken(skew) resolves with the stored token, unchanged
\* and without a refresh request, when now + skew < expiry; with no stored
\* token it resolves with absent and without a request; otherwise it issues
\* exactly one refresh request presenting the stored token and resolves with
\* the new token, which is then the stored token, or with absent.
C4_EnsureValidContract ==
  [][\A c \in Calls :
       /\ EntersEnsureValid(c) =>
            IF tokenStore = NoToken
            THEN /\ call'[c].pc = "evReturned"
                 /\ call'[c].evResult = NoToken
                 /\ call'[c].evReqs = 0
            ELSE IF now + DefaultSkew < tokenStore.exp
            THEN /\ call'[c].pc = "evReturned"
                 /\ call'[c].evResult = tokenStore
                 /\ call'[c].evReqs = 0
                 /\ tokenStore' = tokenStore
            ELSE /\ call'[c].pc = "evRefresh"
                 /\ call'[c].evReqs = 1
                 /\ call'[c].presented = tokenStore
       /\ (call[c].pc = "evRefresh" /\ Steps(c)) =>
            /\ call'[c].pc = "evReturned"
            /\ call'[c].evReqs = 1
            /\ \/ call'[c].evResult = NoToken /\ tokenStore' = tokenStore
               \/ /\ call'[c].evResult # NoToken
                  /\ call'[c].evResult # call[c].presented
                  /\ tokenStore' = call'[c].evResult
  ]_vars

\* ensureValidAccessToken found the stored token stale, issued its one refresh
\* request, and resolved with the new token, now the stored one
C4_Witness ==
  \E c \in Calls :
    /\ call[c].pc = "evReturned"
    /\ call[c].evReqs = 1
    /\ call[c].evResult # NoToken
    /\ call[c].evResult # call[c].presented
    /\ tokenStore = call[c].evResult

\* C5: every token ensureValidAccessToken(skew) resolves with, a token just
\* obtained from the refresh endpoint included, has an expiry strictly greater
\* than now + skew.
C5_ReturnedTokenFresh ==
  [][\A c \in Calls :
       (/\ call[c].pc # "evReturned"
        /\ call'[c].pc = "evReturned"
        /\ call'[c].evResult # NoToken)
         => call'[c].evResult.exp > now' + DefaultSkew
  ]_vars

\* C6: a request is dispatched only after ensureValidAccessToken resolved with
\* a token; when it resolved with absent, authFetch dispatches nothing, clears
\* the stored token and fails with the session-expired error.
C6_NoDispatchWithoutToken ==
  [][\A c \in Calls :
       /\ call'[c].dispatched > call[c].dispatched
            => call[c].pc = "evReturned" /\ call[c].evResult # NoToken
       /\ call'[c].pc = "fetching" /\ call[c].pc # "fetching"
            => call[c].pc = "evReturned" /\ call[c].evResult # NoToken
       /\ (/\ call[c].pc = "evReturned"
           /\ call[c].evResult = NoToken
           /\ call[c].op # "me"
           /\ Steps(c))
            => /\ call'[c].pc = "failed"
               /\ call'[c].dispatched = 0
               /\ tokenStore' = NoToken
               /\ IF call[c].op = "deleteSubject"
                  THEN subjectFormStatus' = MsgSessionExpired
                  ELSE subjectsError' = MsgSessionExpired
  ]_vars

\* authFetch has failed before any response, the store is empty and the
\* handler shows the session-expired error
C6_Witness ==
  \E c \in Calls :
    /\ call[c].pc = "failed"
    /\ call[c].status = 0
    /\ tokenStore = NoToken
    /\ subjectFormStatus = MsgSessionExpired

\* C7: the stored token is cleared only by a call left without a usable token
\* or answered 401 for good; a 403 response or a transport/5xx failure, the
\* current-user read included, leaves the stored token alone and starts no
\* refresh and no replay.
C7_ClearedOnlyOnSessionExpiry ==
  [][\A c \in Calls :
       /\ (/\ call[c].pc = "fetching"
           /\ Steps(c)
           /\ call'[c].status \in {403, 409, 500, -1})
            => /\ tokenStore' = tokenStore
               /\ call'[c].pc \in {"done", "failed"}
       /\ (Steps(c) /\ tokenStore # NoToken /\ tokenStore' = NoToken)
            => \/ call[c].pc = "evReturned" /\ call[c].evResult = NoToken
               \/ call[c].pc = "rfReturned" /\ call[c].refreshed = NoToken
               \/ call[c].pc = "fetching" /\ call'[c].status = 401
  ]_vars

\* C8: every 409 response surfaces a dependency-specific message, never the
\* generic failure message, whatever the response body is.
C8_ConflictMessageSpecific ==
  [][\A c \in Calls :
       (call[c].pc = "fetching" /\ Steps(c) /\ call'[c].status = 409)
         => IF call[c].op = "deleteSubject"
            THEN subjectFormStatus' \notin {MsgGeneric, MsgRemoveSubject}
            ELSE subjectsError' \notin {MsgGeneric, MsgLoadSubjects}
  ]_vars

(* ---------------------------------------------------------------------- *)
(* Feedback statistics properties                                          *)
(* ---------------------------------------------------------------------- *)
\* C9: the overview stats partition the feedback list:
\* positivo + neutro + negativo = total = length of the list, triggers <= total.
C9_OverviewPartition ==
  /\ stats.total = Len(feedbacks)
  /\ stats.positivo + stats.neutro + stats.negativo = stats.total
  /\ stats.triggers <= stats.total

\* a loaded list holding an unlabeled event and one whose label is no
\* sentiment, both counted as neutro
C9_Witness ==
  /\ Len(feedbacks) = 2
  /\ \E i \in 1 .. 2 : feedbacks[i].sentiment_label = <<>>
  /\ \E i \in 1 .. 2 : feedbacks[i].sentiment_label = StrTotal
  /\ stats.neutro = 2

\* C10: the personal stats partition the received list:
\* positivo + neutro + negativo = total = number of received events.
C10_PersonalPartition ==
  /\ personalStats.total = Len(personalFeedbacks.received)
  /\ personalStats.positivo + personalStats.neutro + personalStats.negativo
       = personalStats.total

(* ---------------------------------------------------------------------- *)
(* Aggregation and ranking properties                                      *)
(* ---------------------------------------------------------------------- *)
RECURSIVE SumOf(_, _, _)
SumOf(list, field, i) ==
  IF i > Len(list) THEN 0 ELSE list[i][field] + SumOf(list, field, i + 1)

PersonEvents(list) == {i \in DOMAIN list : list[i].target_type = "user"}

\* C11: for the loaded event list, the persons' sent counts add up to the
\* number of events, and their received counts add up to no more than the
\* number of events whose target is a person; this includes lists in which a
\* person is both the sender and the target of an event.
C11_AggregateSums ==
  /\ SumOf(userIndex, "sent", 1) = Len(feedbacks)
  /\ SumOf(userIndex, "received", 1) <= Cardinality(PersonEvents(feedbacks))

\* a loaded list with an event a person sent to themselves and an event
\* addressed to a classroom
C11_Witness ==
  /\ \E i \in DOMAIN feedbacks :
        feedbacks[i].target_type = "user" /\ feedbacks[i].target_id = feedbacks[i].sender_id
  /\ \E i \in DOMAIN feedbacks : feedbacks[i].target_type = "class"
  /\ \E i \in DOMAIN userIndex : userIndex[i].sent > 0 /\ userIndex[i].received > 0

\* the seven rankings: name, metric, role filter ("" is any role)
Rankings ==
  { <<"topSenders", "sent", "">>,
    <<"topRecipients", "received", "">>,
    <<"praisedStudents", "positiveReceived", "aluno">>,
    <<"praisedTeachers", "positiveReceived", "professor">>,
    <<"pressuredStudents", "negativeReceived", "aluno">>,
    <<"pressuredTeachers", "negativeReceived", "professor">>,
    <<"professorSentiments", "received", "professor">> }

\* C12: each of the seven ranking lists has at most 5 entries, is in
\* non-increasing order of its metric, holds only persons of its role, and
\* holds no entry whose metric is 0.
C12_RankingShape ==
  \A r \in Rankings :
    LET list == analytics[r[1]] IN
    /\ Len(list) <= 5
    /\ \A i \in DOMAIN list :
         /\ i > 1 => list[i - 1][r[2]] >= list[i][r[2]]
         /\ r[3] # "" => list[i].role = r[3]
         /\ list[i][r[2]] > 0

\* six teachers have received an event, one of them more than the others: a
\* ranking is cut to five and its order is decided by the metric
C12_Witness ==
  /\ Cardinality({i \in DOMAIN userIndex :
                    userIndex[i].role = "professor" /\ userIndex[i].received > 0}) > 5
  /\ Len(analytics.topRecipients) = 5
  /\ analytics.topRecipients[1].received > analytics.topRecipients[5].received
  /\ analytics.praisedStudents # <<>>

\* C13: the teacher sentiment-mix view holds every teacher who has received
\* an event, however many they are.
C13_AllTeachersListed ==
  \A i \in DOMAIN userIndex :
    (userIndex[i].role = "professor" /\ userIndex[i].received > 0)
      => \E j \in DOMAIN analytics.professorSentiments :
           analytics.professorSentiments[j].id = userIndex[i].id

(* ---------------------------------------------------------------------- *)
(* Directory form properties                                               *)
(* ---------------------------------------------------------------------- *)

\* C14: handleUserSubmit issues a create call only when the trimmed password
\* has at least 6 characters, and the call carries it; in edit mode an empty
\* trimmed password is not rejected as a password and the update then carries
\* no password field; in edit mode a non-empty trimmed password shorter than 6
\* is rejected with an error status and no remote call.
C14_CredentialRule ==
  [][HandleUserSubmit =>
       LET trimmed == Trim(userForm.password)
       IN /\ pending'.kind = "createAdminUser" =>
               /\ Len(trimmed) >= 6
               /\ pending'.payload.password = trimmed
          /\ userFormMode = "edit" /\ trimmed = <<>> =>
               /\ userFormStatus' # MsgPassword
               /\ pending'.kind = "updateAdminUser" =>
                    "password" \notin DOMAIN pending'.payload
          /\ userFormMode = "edit" /\ trimmed # <<>> /\ Len(trimmed) < 6 =>
               /\ pending' = pending
               /\ userFormStatus' \in {MsgNameEmail, MsgPassword}
  ]_vars

\* an update is in flight whose payload has no password field
C14_Witness ==
  /\ pending.kind = "updateAdminUser"
  /\ "password" \notin DOMAIN pending.payload
  /\ userForm.password \in {<<>>, <<" ", " ">>}

\* the fields the person form must hold for its role; the eligible-subject
\* selection of a teacher is the form's teachable_subject_ids
FormComplete(form) ==
  /\ Trim(form.full_name) # <<>>
  /\ Trim(form.email) # <<>>
  /\ form.role \in {"gestor", "professor", "aluno"} => form.school_id # ""
  /\ form.role = "professor" => form.teachable_subject_ids # <<>>
  /\ form.role = "aluno" => form.classroom_id # ""

\* C15: handleUserSubmit issues a remote call only when name and email are
\* present, a manager, teacher or student has a school, a teacher has a
\* non-empty eligible-subject selection and a student has a classroom;
\* otherwise it sets an error status and issues no call; the payload of an
\* administrator carries no school.
C15_RequiredFields ==
  [][HandleUserSubmit =>
       /\ ~FormComplete(userForm) =>
            /\ pending' = pending
            /\ userFormStatus' \in {MsgNameEmail, MsgPassword, MsgSchoolRequired,
                                    MsgManagerScope, MsgTeacherLinks, MsgStudentClassroom}
       /\ pending'.kind # "none" =>
            /\ FormComplete(userForm)
            /\ userForm.role = "admin" => "school_id" \notin DOMAIN pending'.payload
  ]_vars

\* reference ref names an item of list that belongs to school
BelongsTo(list, ref, school) ==
  \E item \in Range(list) : StringOf(item.id) = ref /\ StringOf(item.school_id) = school

\* C17: the person form never holds a classroom, subject or teaching-classroom
\* reference that does not belong to the form's school.
C17_NoStaleReference ==
  userForm.school_id # "" =>
    /\ userForm.classroom_id # "" =>
         BelongsTo(RemoteClassrooms, userForm.classroom_id, userForm.school_id)
    /\ userForm.subject_id # "" =>
         BelongsTo(RemoteSubjects, userForm.subject_id, userForm.school_id)
    /\ \A i \in DOMAIN userForm.classroom_ids :
         BelongsTo(RemoteClassrooms, userForm.classroom_ids[i], userForm.school_id)
    /\ \A i \in DOMAIN userForm.teachable_subject_ids :
         BelongsTo(RemoteSubjects, userForm.teachable_subject_ids[i], userForm.school_id)

\* C16: while the caller is a manager, every create or update call of the
\* person form or of the subject form that is in flight targets the manager's
\* own school.
C16_ManagerScope ==
  caller.isManager
  /\ pending.kind \in {"createAdminUser", "updateAdminUser", "createSubject", "updateSubject"}
  => /\ "school_id" \in DOMAIN pending.payload
     /\ pending.payload.school_id = caller.managerSchoolId

\* C19: a delete call is in flight only when the loaded collections hold no
\* dependent of its target: no subject, classroom or person of the school, no
\* classroom listing the subject, no student of the classroom.
C19_DeleteWithoutDependents ==
  /\ pending.kind = "deleteSchool" =>
       /\ \A subject \in Range(subjects) : subject.school_id # pending.id
       /\ \A classroom \in Range(classrooms) : classroom.school_id # pending.id
       /\ \A user \in Range(users) : user.school_id # pending.id
  /\ pending.kind = "deleteSubject" =>
       \A classroom \in Range(classrooms) : pending.id \notin Range(classroom.subject_ids)
  /\ pending.kind = "deleteClassroom" =>
       \A user \in Range(users) : user.role = "aluno" => user.classroom_id # pending.id

(* ---------------------------------------------------------------------- *)
(* Assignment and alert properties                                         *)
(* ---------------------------------------------------------------------- *)

\* teacherId names a teacher of the loaded directory who is eligible for
\* subjectId and belongs to the school of the classroom classroomId
EligibleFor(teacherId, subjectId, classroomId) ==
  \E teacher \in Range(ProfessorDirectory) : \E classroom \in Range(classrooms) :
    /\ teacher.id = teacherId
    /\ classroom.id = classroomId
    /\ subjectId \in Range(teacher.teachable_subject_ids)
    /\ teacher.school_id = classroom.school_id

\* C18: every entry of the payload of an updateClassroomAssignments in flight
\* has no teacher, or a teacher eligible for the entry's subject who belongs
\* to the school of the classroom the call saves.
C18_SavedTeachersEligible ==
  assignmentSave # NoSave =>
    \A i \in DOMAIN assignmentSave.payload.assignments :
      LET entry == assignmentSave.payload.assignments[i]
      IN entry.teacher_id = ""
         \/ EligibleFor(entry.teacher_id, entry.subject_id, assignmentSave.classroomId)

\* C20: when a resolve flow ends whose resolve call and whose two reloads
\* resolved, the alert is absent from the active view and present in the
\* resolved view.
C20_ResolvedAlertMoves ==
  [][\A flow \in FlowIds :
       /\ resolveFlows[flow].pc = "reloadResolved"
       /\ resolveFlows'[flow].pc = "idle"
       /\ resolveFlows'[flow].resolved
       /\ resolveFlows'[flow].activeOk
       /\ resolveFlows'[flow].resolvedOk
       => /\ resolveFlows[flow].alert \notin AlertIdsOf(alertHooks'["triggerAlerts"].alerts)
          /\ resolveFlows[flow].alert \in AlertIdsOf(alertHooks'["resolvedAlerts"].alerts)
  ]_vars

\* C21: the resolve action of an alert is not triggered while a resolve call
\* for that alert is in flight, nor after one has succeeded.
C21_OneResolvePerAlert ==
  [][\A id \in AlertIds :
       ResolveAlert(id) =>
         /\ ~remoteAlerts[id]
         /\ \A flow \in FlowIds :
              ~(resolveFlows[flow].alert = id /\ resolveFlows[flow].pc = "resolving")
  ]_vars

\* C22: handleReportFeedback issues the report call only for a row without
\* the trigger flag and a reason of at least 5 characters after trimming, and
\* sends the trimmed reason; when the flag is set, the prompt is cancelled or
\* the reason is too short, no call is issued and no reload is requested.
C22_ReportGuard ==
  [][\A row \in Range(professorRows) : \A prompt \in Prompts :
       HandleReportFeedback(row, prompt) =>
         /\ reportCalls' # reportCalls =>
              /\ ~row.has_trigger
              /\ ~prompt.cancelled
              /\ Len(Trim(prompt.text)) >= 5
              /\ reportCalls' = Append(reportCalls, [id |-> row.id, reason |-> Trim(prompt.text)])
         /\ (row.has_trigger \/ prompt.cancelled \/ Len(Trim(prompt.text)) < 5) =>
              /\ reportCalls' = reportCalls
              /\ reportLoads' = reportLoads
              /\ remoteFlags' = remoteFlags
              /\ professorRows' = professorRows
  ]_vars

\* a report is in flight for a reason typed with surrounding blanks, next to
\* a listed row that carries the flag
C22_Witness ==
  /\ \E i \in DOMAIN reportCalls : reportCalls[i].reason = <<"r", "i", "s", "c", "o">>
  /\ \E row \in Range(professorRows) : row.has_trigger
  /\ reportStatus = MsgAlreadyReported

\* C23: a keyword create call of a manager carries the manager's institution,
\* one of an administrator carries no institution; a blank keyword and a
\* manager without an institution are rejected without a remote call; the
\* call carries the keyword as passed and nothing else.
C23_KeywordScope ==
  [][\A keyword \in KeywordInputs :
       HandleCreate(keyword) =>
         /\ keywordCall' # keywordCall =>
              /\ keywordCall'.kind = "createTriggerKeyword"
              /\ DOMAIN keywordCall'.payload \subseteq {"keyword", "school_id"}
              /\ keywordCall'.payload.keyword = keyword
              /\ caller.isAdmin => "school_id" \notin DOMAIN keywordCall'.payload
              /\ ~caller.isAdmin =>
                   /\ "school_id" \in DOMAIN keywordCall'.payload
                   /\ keywordCall'.payload.school_id = caller.managerSchoolId
                   /\ caller.managerSchoolId # 0
         /\ (Trim(keyword) = <<>> \/ (~caller.isAdmin /\ caller.managerSchoolId = 0)) =>
              /\ keywordCall' = keywordCall
              /\ keywordStatus' \in {MsgKeywordRequired, MsgKeywordNeedsSchool}
  ]_vars

\* a create call of an administrator whose session has an institution is in
\* flight
C23_Witness ==
  /\ caller = AdminWithSchool
  /\ keywordCall.kind = "createTriggerKeyword"
  /\ keywordCall.payload.keyword = <<" ", "w", " ">>

\* C24: once no load of the panel is in flight, the assignments displayed
\* are the answer for the classroom selected last, whatever the order in
\* which the answers of overlapping loads arrived.
C24_LatestLoadWins ==
  /\ assignmentLoads = <<>>
  /\ selectedClassroomId # 0
  /\ assignments # NoAssignments
  => assignments.classroom_id = selectedClassroomId

\* C29: the body of every updateClassroomAssignments call names the
\* classroom of the request path, the one selected when handleSave ran.
C29_SavedClassroomIsSelected ==
  assignmentSave # NoSave => assignmentSave.payload.classroom_id = assignmentSave.classroomId

SuppliedFor(list, id, senderField, targetField) ==
  {list[i][senderField] : i \in {j \in DOMAIN list : list[j].sender_id = id}}
  \cup {list[i][targetField] :
          i \in {j \in DOMAIN list : list[j].target_type = "user" /\ list[j].target_id = id}}

\* C26: after the aggregation pass, a person for whom some event of the list
\* supplies a name, a role or an e-mail has a supplied one, also when the first
\* event naming the person carried none; and no person has a blank name.
C26_FallbackEnriched ==
  \A i \in DOMAIN userIndex :
    LET id == userIndex[i].id
        names == SuppliedFor(feedbacks, id, "sender_name", "target_name") \ {""}
        roles == SuppliedFor(feedbacks, id, "sender_role", "target_role") \ {""}
        emails == SuppliedFor(feedbacks, id, "sender_email", "target_email") \ {""}
    IN /\ userIndex[i].name # ""
       /\ names # {} => userIndex[i].name \in names
       /\ roles # {} => userIndex[i].role \in roles
       /\ emails # {} => userIndex[i].email \in emails

\* the events of a list addressed to a person whose label is in labels
ReceivedWith(list, id, labels) ==
  Cardinality({i \in DOMAIN list : /\ list[i].target_type = "user"
                                   /\ list[i].target_id = id
                                   /\ ToLowerCase(list[i].sentiment_label) \in labels})

\* the labels that occur in the sample
SampleLabels == {ToLowerCase(event.sentiment_label) : event \in AnalyticsEvents \cup Range(BaseEvents)}

\* C27: after the aggregation pass every person has received = positive +
\* neutral + negative; each bucket counts the events addressed to the person
\* with that label, an absent or unrecognized label counting as neutral; an
\* event addressed to a classroom counts for no person and its target has no
\* record.
C27_ReceivedBuckets ==
  /\ \A i \in DOMAIN userIndex :
       LET entry == userIndex[i] IN
       /\ entry.received =
            entry.positiveReceived + entry.neutralReceived + entry.negativeReceived
       /\ entry.received = ReceivedWith(feedbacks, entry.id, SampleLabels)
       /\ entry.positiveReceived = ReceivedWith(feedbacks, entry.id, {StrPositivo})
       /\ entry.negativeReceived = ReceivedWith(feedbacks, entry.id, {StrNegativo})
       /\ entry.neutralReceived =
            ReceivedWith(feedbacks, entry.id, SampleLabels \ {StrPositivo, StrNegativo})
  /\ \A i \in DOMAIN feedbacks :
       feedbacks[i].target_type # "user" =>
         \A j \in DOMAIN userIndex : userIndex[j].id # feedbacks[i].target_id

\* a loaded list with an event of unrecognized label and one of absent label
\* addressed to persons, and an event addressed to a classroom
C27_Witness ==
  /\ \E i \in DOMAIN feedbacks :
       feedbacks[i].target_type = "user" /\ feedbacks[i].sentiment_label = <<"f", "e", "l", "i", "z">>
  /\ \E i \in DOMAIN feedbacks :
       feedbacks[i].target_type = "user" /\ feedbacks[i].sentiment_label = <<>>
  /\ \E i \in DOMAIN feedbacks : feedbacks[i].target_type = "class"
  /\ \E i \in DOMAIN userIndex : userIndex[i].neutralReceived > 0

\* how far an authFetch invocation is from its end: the positions it may
\* still go through, the nested invocation of the replay included
AuthFetchRank(l) ==
  IF l.pc \in {"idle", "done", "failed"} THEN 0
  ELSE (IF l.retryOn401 THEN 5 ELSE 0)
       + (CASE l.pc = "evRefresh" -> 5
            [] l.pc = "evReturned" -> 4
            [] l.pc = "fetching" -> 3
            [] l.pc = "rfRefresh" -> 2
            [] OTHER -> 1)

\* C28: every step of an authFetch invocation brings it closer to its end
\* (it returns or throws after a bounded number of answers), its request is
\* dispatched at most twice, and a 403, a 409, another non-2xx status or a
\* transport failure ends the invocation with an error at once.
C28_AuthFetchTerminates ==
  [][\A c \in Calls :
       (call[c].op \in {"deleteSubject", "loadSubjects"} /\ Steps(c)) =>
         /\ call'[c].op = call[c].op => AuthFetchRank(call'[c]) < AuthFetchRank(call[c])
         /\ call'[c].op # call[c].op =>
              \/ call'[c].pc \in {"done", "failed"}
              \/ call[c].pc = "fetching" /\ call'[c].status = 0 /\ call'[c].dispatched = 0
         /\ call'[c].dispatched <= 2
         /\ (call[c].pc = "fetching" /\ call'[c].status \in {403, 409, 500, -1})
              => call'[c].pc = "failed"
         /\ (call[c].pc = "fetching" /\ call[c].dispatched = 2)
              => call'[c].pc \in {"done", "failed"} \/ call'[c].op # call[c].op
  ]_vars

\* the replay of a request is in flight after a 401 and a refresh
C28_Witness ==
  \E c \in Calls :
    /\ call[c].op \in {"deleteSubject", "loadSubjects"}
    /\ call[c].pc = "fetching"
    /\ call[c].dispatched = 2
    /\ ~call[c].retryOn401

(* ---------------------------------------------------------------------- *)
(* Sign-in properties                                                      *)
(* ---------------------------------------------------------------------- *)
\* a step of login that ends it with an error
LoginFails ==
  /\ \/ \E email \in LoginEmails : \E password \in LoginPasswords : Login(email, password)
     \/ \E answer \in LoginAnswers : LoginSettled(answer)
     \/ LoginMeDispatch
     \/ \E st \in {200, 401, 403, 500, -1} : \E role \in UserRoles : LoginMeRespond(st, role)
  /\ loginRun'.pc = "failed"

\* a step that sets a session
SessionSet == session' # "none" /\ session' # session

\* the step is the answer 200 to a current-user read that call c dispatched
\* with a token
ReadSucceeds(c) ==
  /\ call[c].op = "me"
  /\ call[c].pc = "fetching"
  /\ call[c].headers # NoToken
  /\ call'[c].pc = "done"
  /\ call'[c].status = 200

====
